---- MODULE Spec2Model ----
(***************************************************************************)
(* The BriteSide newsletter backend (src/app.py, src/config/               *)
(* briteside_config.py): the employee directory with its versioned         *)
(* snapshot in object storage, the draft/published document store, the     *)
(* newsletter delivery loop, the email renderer, the birthday filter, the  *)
(* game answers, and the handlers run on two threads at the same time.     *)
(*                                                                         *)
(* Python strings are sequences of one-character strings, so that          *)
(* str.lower(), str.strip(), str.replace() and the string order used by    *)
(* list.sort() are computed the way Python computes them.                  *)
(***************************************************************************)
EXTENDS Integers, Sequences, FiniteSets, TLC

VARIABLES EMPLOYEES, gcs_client, bucket, last, steps, mail, requests

vars == <<EMPLOYEES, gcs_client, bucket, last, steps, mail, requests>>

----------------------------------------------------------------------------
(* Bounds of the model *)

\* number of requests / restarts explored after the first process start
MaxSteps == 2
\* largest version number a snapshot found in storage may carry
MaxStoredVersion == 3
\* longest recipient list of a send_newsletter request
MaxRecipients == 3
\* largest month number a get_birthdays request asks for
MaxMonth == 13
\* most birthdays, welcome hires and spotlights a render_email payload lists
MaxEntries == 2
\* most photos an update of a render_email payload carries
MaxPhotos == 4

----------------------------------------------------------------------------
(* Python strings *)

\* the printable ASCII characters of code points 32..95 and 97..126, in
\* order (the grave accent, code point 96, is left out of the alphabet)
AsciiLow ==
  <<" ", "!", "\"", "#", "$", "%", "&", "'", "(", ")", "*", "+", ",", "-",
    ".", "/", "0", "1", "2", "3", "4", "5", "6", "7", "8", "9", ":", ";",
    "<", "=", ">", "?", "@", "A", "B", "C", "D", "E", "F", "G", "H", "I",
    "J", "K", "L", "M", "N", "O", "P", "Q", "R", "S", "T", "U", "V", "W",
    "X", "Y", "Z", "[", "\\", "]", "^", "_">>

AsciiHigh ==
  <<"a", "b", "c", "d", "e", "f", "g", "h", "i", "j", "k", "l", "m", "n",
    "o", "p", "q", "r", "s", "t", "u", "v", "w", "x", "y", "z", "{", "|",
    "}", "~">>

CharSet ==
  {AsciiLow[i] : i \in 1..Len(AsciiLow)} \cup {AsciiHigh[i] : i \in 1..Len(AsciiHigh)}

\* ord(c): the code point of a character
Ord ==
  [c \in CharSet |->
     IF \E i \in 1..Len(AsciiLow) : AsciiLow[i] = c
       THEN 31 + (CHOOSE i \in 1..Len(AsciiLow) : AsciiLow[i] = c)
       ELSE 96 + (CHOOSE i \in 1..Len(AsciiHigh) : AsciiHigh[i] = c)]

\* chr(n)
Chr(n) == IF n < 96 THEN AsciiLow[n - 31] ELSE AsciiHigh[n - 96]

lower_char(c) == IF Ord[c] \in 65..90 THEN Chr(Ord[c] + 32) ELSE c

upper_char(c) == IF Ord[c] \in 97..122 THEN Chr(Ord[c] - 32) ELSE c

\* str.lower()
lower(s) == [i \in 1..Len(s) |-> lower_char(s[i])]

\* str.upper(), used to build request inputs
upper(s) == [i \in 1..Len(s) |-> upper_char(s[i])]

RECURSIVE lstrip(_)
lstrip(s) == IF s # <<>> /\ Head(s) = " " THEN lstrip(Tail(s)) ELSE s

RECURSIVE rstrip(_)
rstrip(s) ==
  IF s # <<>> /\ s[Len(s)] = " " THEN rstrip(SubSeq(s, 1, Len(s) - 1)) ELSE s

\* str.strip()
strip(s) == rstrip(lstrip(s))

\* a < b for Python strings: lexicographic by code point
RECURSIVE str_lt(_, _)
str_lt(a, b) ==
  IF b = <<>> THEN FALSE
  ELSE IF a = <<>> THEN TRUE
  ELSE IF Ord[Head(a)] # Ord[Head(b)] THEN Ord[Head(a)] < Ord[Head(b)]
  ELSE str_lt(Tail(a), Tail(b))

\* str.find(old): the position of the first occurrence, 0 when there is none
find(s, old) ==
  LET hits == {i \in 1..(Len(s) - Len(old) + 1) :
                 SubSeq(s, i, i + Len(old) - 1) = old}
  IN IF hits = {} THEN 0 ELSE CHOOSE i \in hits : \A j \in hits : i <= j

\* str.replace(old, new, 1)
replace_first(s, old, new) ==
  LET i == find(s, old)
  IN IF i = 0 THEN s
     ELSE SubSeq(s, 1, i - 1) \o new \o SubSeq(s, i + Len(old), Len(s))

\* str.replace(old, new) for a one-character old
replace_char(s, old, new) ==
  [i \in 1..Len(s) |-> IF s[i] = old THEN new ELSE s[i]]

\* str.split(sep)[0] for a one-character sep
split_first(s, sep) ==
  LET i == find(s, <<sep>>) IN IF i = 0 THEN s ELSE SubSeq(s, 1, i - 1)

\* str(n) for n >= 0
RECURSIVE str(_)
str(n) ==
  IF n < 10 THEN <<Chr(48 + n)>> ELSE str(n \div 10) \o <<Chr(48 + (n % 10))>>

----------------------------------------------------------------------------
(* Configuration *)

CONFIG_EMPLOYEES_VERSION == 2

\* The configured list has 53 entries; the model keeps three of them in
\* their order (lines 46, 48 and 49). Like the whole list they are sorted by
\* lower-cased name; they hold the list's repeated email (lines 46 and 48)
\* and one of its mixed-case emails (line 49).
CONFIG_EMPLOYEES ==
  << [name |-> <<"M", "a", "r", "d", "o", "n", " ", "B", "a", "l", "l", "a", "r", "e", "s">>,
      email |-> <<"m", "a", "r", "l", "o", "n", ".", "b", "a", "l", "l", "a", "r", "e", "s", "@", "b", "r", "i", "t", "e", ".", "c", "o">>,
      birthday_month |-> 0, birthday_day |-> 0, department |-> <<>>,
      title |-> <<"U", "n", "d", "e", "r", "w", "r", "i", "t", "i", "n", "g", " ", "A", "s", "s", "i", "s", "t", "a", "n", "t">>],
     [name |-> <<"M", "a", "r", "l", "o", "n", " ", "B", "a", "l", "l", "a", "r", "e", "s">>,
      email |-> <<"m", "a", "r", "l", "o", "n", ".", "b", "a", "l", "l", "a", "r", "e", "s", "@", "b", "r", "i", "t", "e", ".", "c", "o">>,
      birthday_month |-> 0, birthday_day |-> 0, department |-> <<>>,
      title |-> <<"U", "n", "d", "e", "r", "w", "r", "i", "t", "i", "n", "g", " ", "S", "u", "p", "p", "o", "r", "t", " ", "S", "t", "a", "f", "f">>],
     [name |-> <<"M", "i", "c", "k", " ", "D", "e", "l", "a", " ", "C", "r", "u", "z">>,
      email |-> <<"M", "i", "c", "k", ".", "D", "e", "l", "a", "C", "r", "u", "z", "@", "b", "r", "i", "t", "e", ".", "c", "o">>,
      birthday_month |-> 0, birthday_day |-> 0, department |-> <<>>,
      title |-> <<"B", "u", "s", "i", "n", "e", "s", "s", " ", "D", "e", "v", "e", "l", "o", "p", "m", "e", "n", "t", " ", "R", "e", "p", "r", "e", "s", "e", "n", "t", "a", "t", "i", "v", "e">>] >>

EMPLOYEES_GCS_KEY ==
  <<"c", "o", "n", "f", "i", "g", "/", "e", "m", "p", "l", "o", "y", "e", "e", "s", ".", "j", "s", "o", "n">>

----------------------------------------------------------------------------
(* Object storage: the bucket maps every key to a blob or to NoBlob *)

NoBlob == [kind |-> "none"]

DRAFTS_PREFIX == <<"d", "r", "a", "f", "t", "s", "/">>

PUBLISHED_PREFIX == <<"p", "u", "b", "l", "i", "s", "h", "e", "d", "/">>

JSON_SUFFIX == <<".", "j", "s", "o", "n">>

\* save_draft's blob name: f"drafts/{month}-{year}-{saved_by}.json"
draft_blob_name(data) ==
  LET month == lower(data.month)
      saved_by == replace_char(split_first(data.savedBy, "@"), ".", "-")
  IN DRAFTS_PREFIX \o month \o <<"-">> \o str(data.year) \o <<"-">>
       \o saved_by \o JSON_SUFFIX

\* publish_draft's target name
published_name(filename) ==
  replace_first(filename, DRAFTS_PREFIX, PUBLISHED_PREFIX)

\* request bodies of save_draft; payload stands for the newsletter content
\* fields copied from the request into the draft
SaveBodies ==
  [month : {<<"M", "a", "r", "c", "h">>}, year : {2026},
   savedBy : {<<"a", "b", "e", ".", "l", "e", "e", "@", "b", "r", "i", "t", "e", ".", "c", "o">>, <<"z", "e", "d", "@", "b", "r", "i", "t", "e", ".", "c", "o">>}, payload : {"joke A", "joke B"}]

DraftKeys == {draft_blob_name(data) : data \in SaveBodies}

PublishedKeys == {published_name(k) : k \in DraftKeys}

Keys == {EMPLOYEES_GCS_KEY} \cup DraftKeys \cup PublishedKeys

\* blob.exists()
blob_exists(bkt, key) == bkt[key].kind # "none"

\* json.dumps({"version": ..., "employees": ...}) as stored under the key
snapshot_blob(version, employees) ==
  [kind |-> "snapshot", format |-> "dict", version |-> version,
   employees |-> employees]

\* the legacy snapshot format: a bare JSON list
legacy_blob(employees) ==
  [kind |-> "snapshot", format |-> "list", employees |-> employees]

\* a reading that takes every versioned snapshot for one version older
gcs_version_older(raw) == IF raw.format = "dict" THEN raw.version - 1 ELSE 1

\* the version load_employees_from_gcs reads from a stored snapshot
gcs_version(raw) == IF raw.format = "dict" THEN raw.version ELSE 1

----------------------------------------------------------------------------
(* Employee directory *)

\* a save whose failed upload takes the stored snapshot away
save_employees_torn(client, employees, bkt, upload_ok) ==
  IF client /\ upload_ok
    THEN [ret |-> TRUE,
          bucket |-> [bkt EXCEPT ![EMPLOYEES_GCS_KEY] =
                        snapshot_blob(CONFIG_EMPLOYEES_VERSION, employees)]]
    ELSE [ret |-> FALSE,
          bucket |-> [bkt EXCEPT ![EMPLOYEES_GCS_KEY] = NoBlob]]

\* save_employees_to_gcs: the value returned and the bucket afterwards;
\* upload_ok = FALSE is an upload that raises
save_employees_to_gcs(client, employees, bkt, upload_ok) ==
  IF ~client THEN [ret |-> FALSE, bucket |-> bkt]
  ELSE IF upload_ok
    THEN [ret |-> TRUE,
          bucket |-> [bkt EXCEPT ![EMPLOYEES_GCS_KEY] =
                        snapshot_blob(CONFIG_EMPLOYEES_VERSION, employees)]]
    ELSE [ret |-> FALSE, bucket |-> bkt]

\* load_employees_from_gcs, run at import with EMPLOYEES = list(CONFIG_EMPLOYEES);
\* download_ok = FALSE is a storage read that raises; loaded and saved tell
\* how the read and the write of the snapshot ended
load_employees_from_gcs(client, bkt, download_ok, upload_ok) ==
  LET config(loaded) ==
        [employees |-> CONFIG_EMPLOYEES, bucket |-> bkt, loaded |-> loaded,
         saved |-> "not called"]
      save == save_employees_to_gcs(client, CONFIG_EMPLOYEES, bkt, upload_ok)
      saved == [employees |-> CONFIG_EMPLOYEES, bucket |-> save.bucket,
                loaded |-> "ok",
                saved |-> IF save.ret THEN "ok" ELSE "failed"]
  IN IF ~client THEN config("not called")
     ELSE IF ~download_ok THEN config("failed")
     ELSE IF blob_exists(bkt, EMPLOYEES_GCS_KEY)
       THEN IF gcs_version(bkt[EMPLOYEES_GCS_KEY]) < CONFIG_EMPLOYEES_VERSION
              THEN saved
              ELSE [employees |-> bkt[EMPLOYEES_GCS_KEY].employees,
                    bucket |-> bkt, loaded |-> "ok", saved |-> "not called"]
       ELSE saved

\* a sort key that keeps the case of the name
name_key_raw(e) == e.name

\* what list.sort(key=lambda e: e['name'].lower()) compares
name_key(e) == lower(e.name)

\* insert e into a sorted list behind every entry whose key is not greater
RECURSIVE insert_sorted(_, _)
insert_sorted(sorted, e) ==
  IF sorted = <<>> THEN <<e>>
  ELSE IF str_lt(name_key(e), name_key(Head(sorted))) THEN <<e>> \o sorted
  ELSE <<Head(sorted)>> \o insert_sorted(Tail(sorted), e)

\* EMPLOYEES.sort(key=lambda e: e['name'].lower()): a stable sort
RECURSIVE sort_by_name(_)
sort_by_name(l) ==
  IF l = <<>> THEN <<>>
  ELSE insert_sorted(sort_by_name(SubSeq(l, 1, Len(l) - 1)), l[Len(l)])

\* a comparison that lower-cases the request's email only
matching_exact(employees, email_lower) ==
  {i \in 1..Len(employees) : employees[i].email = email_lower}

\* indexes of the employees whose email equals the (already lower-cased)
\* email, compared as the three handlers compare: emp['email'].lower() == email
matching(employees, email_lower) ==
  {i \in 1..Len(employees) : lower(employees[i].email) = email_lower}

\* data.get(field, default)
get(data, field, default) ==
  IF field \in data.present THEN data[field] ELSE default

\* the first index of a non-empty set of indexes: where a for loop over the
\* list stops
first(indexes) == CHOOSE i \in indexes : \A j \in indexes : i <= j

\* add_employee: the response and the state afterwards
add_employee(data, employees, client, bkt, upload_ok) ==
  LET name == strip(get(data, "name", <<>>))
      email == strip(get(data, "email", <<>>))
      rejected(status) ==
        [status |-> status, employees |-> employees, bucket |-> bkt,
         saved |-> "not called", idx |-> 0]
      new_employee ==
        [name |-> name, email |-> email,
         birthday_month |-> get(data, "birthday_month", 0),
         birthday_day |-> get(data, "birthday_day", 0),
         department |-> get(data, "department", <<>>),
         title |-> get(data, "title", <<>>)]
      sorted == sort_by_name(Append(employees, new_employee))
      save == save_employees_to_gcs(client, sorted, bkt, upload_ok)
  IN IF name = <<>> THEN rejected(400)
     ELSE IF email = <<>> THEN rejected(400)
     ELSE IF matching(employees, lower(email)) # {} THEN rejected(409)
     ELSE [status |-> 200, employees |-> sorted, bucket |-> save.bucket,
           saved |-> IF save.ret THEN "ok" ELSE "failed", idx |-> 0]

\* a remove_employee that saves the snapshot before it looks at the count
remove_employee_save_first(data, employees, client, bkt, upload_ok) ==
  LET email == lower(strip(get(data, "email", <<>>)))
      kept == SelectSeq(employees, LAMBDA emp : lower(emp.email) # email)
      save == save_employees_to_gcs(client, kept, bkt, upload_ok)
  IN IF email = <<>>
       THEN [status |-> 400, employees |-> employees, bucket |-> bkt,
             saved |-> "not called", idx |-> 0]
     ELSE [status |-> IF Len(kept) = Len(employees) THEN 404 ELSE 200,
           employees |-> kept, bucket |-> save.bucket,
           saved |-> IF save.ret THEN "ok" ELSE "failed", idx |-> 0]

\* remove_employee: the response and the state afterwards
remove_employee(data, employees, client, bkt, upload_ok) ==
  LET email == lower(strip(get(data, "email", <<>>)))
      kept == SelectSeq(employees, LAMBDA emp : lower(emp.email) # email)
      save == save_employees_to_gcs(client, kept, bkt, upload_ok)
  IN IF email = <<>>
       THEN [status |-> 400, employees |-> employees, bucket |-> bkt,
             saved |-> "not called", idx |-> 0]
     ELSE IF Len(kept) = Len(employees)
       THEN [status |-> 404, employees |-> kept, bucket |-> bkt,
             saved |-> "not called", idx |-> 0]
     ELSE [status |-> 200, employees |-> kept, bucket |-> save.bucket,
           saved |-> IF save.ret THEN "ok" ELSE "failed", idx |-> 0]

\* a merge that resets the fields the request leaves out
updated_whole(emp, data) ==
  [name |-> IF "name" \in data.present THEN strip(data.name) ELSE <<>>,
   email |-> emp.email,
   birthday_month |-> get(data, "birthday_month", 0),
   birthday_day |-> get(data, "birthday_day", 0),
   department |-> IF "department" \in data.present
                    THEN strip(data.department) ELSE <<>>,
   title |-> IF "title" \in data.present THEN strip(data.title) ELSE <<>>]

\* the record update_employee leaves in place of emp
updated(emp, data) ==
  [name |-> IF "name" \in data.present THEN strip(data.name) ELSE emp.name,
   email |-> emp.email,
   birthday_month |-> get(data, "birthday_month", emp.birthday_month),
   birthday_day |-> get(data, "birthday_day", emp.birthday_day),
   department |-> IF "department" \in data.present
                    THEN strip(data.department) ELSE emp.department,
   title |-> IF "title" \in data.present THEN strip(data.title) ELSE emp.title]

\* update_employee: the response and the state afterwards; idx is the
\* position of the record returned in the response
update_employee(data, employees, client, bkt, upload_ok) ==
  LET email == lower(strip(get(data, "email", <<>>)))
      found == matching(employees, email)
      i == first(found)
      changed == [employees EXCEPT ![i] = updated(employees[i], data)]
      save == save_employees_to_gcs(client, changed, bkt, upload_ok)
  IN IF email = <<>>
       THEN [status |-> 400, employees |-> employees, bucket |-> bkt,
             saved |-> "not called", idx |-> 0]
     ELSE IF found = {}
       THEN [status |-> 404, employees |-> employees, bucket |-> bkt,
             saved |-> "not called", idx |-> 0]
     ELSE [status |-> 200, employees |-> changed, bucket |-> save.bucket,
           saved |-> IF save.ret THEN "ok" ELSE "failed", idx |-> i]

----------------------------------------------------------------------------
(* Requests explored for the directory *)

NovelEmail == <<" ", "A", "b", "e", ".", "L", "e", "e", "@", "b", "r", "i", "t", "e", ".", "c", "o", " ">>

\* the emails sent in requests: every stored email lower-cased and
\* upper-cased, an email no employee has (padded with blanks, mixed case)
\* and the empty email
EmailInputs(employees) ==
  UNION {{lower(employees[i].email), upper(employees[i].email)} :
           i \in 1..Len(employees)}
    \cup {NovelEmail, <<>>}

\* how a storage call can end: it succeeds or it raises; without a client
\* no call is made
StorageOutcomes(client) == IF client THEN BOOLEAN ELSE {FALSE}

\* request bodies of add_employee, the email left to be filled in
AddBodies ==
  { [present |-> {"name", "email"}, email |-> <<>>, name |-> <<" ", " ", " ">>],
    [present |-> {"name", "email"}, email |-> <<>>, name |-> <<"Z", "e", "d", " ", "R", "o", "e">>],
    [present |-> {"name", "email", "birthday_month", "birthday_day",
                  "department", "title"},
     email |-> <<>>, name |-> <<" ", "a", "b", "e", " ", "L", "e", "e", " ">>,
     birthday_month |-> 4, birthday_day |-> 10,
     department |-> <<"O", "p", "s", " ">>, title |-> <<"I", "n", "t", "e", "r", "n">>] }

\* request bodies of update_employee, the email left to be filled in
UpdateBodies ==
  { [present |-> {"email", "name"}, email |-> <<>>, name |-> <<" ", "Z", "e", "d", " ", "R", "o", "e", " ">>],
    [present |-> {"email", "birthday_month", "birthday_day", "department",
                  "title"},
     email |-> <<>>, birthday_month |-> 4, birthday_day |-> 10,
     department |-> <<"O", "p", "s", " ">>, title |-> <<" ", "I", "n", "t", "e", "r", "n">>] }

\* snapshots that an earlier run of the program may have left in storage
StoredEmployees == SubSeq(CONFIG_EMPLOYEES, 1, 2)

InitialSnapshots ==
  {NoBlob, legacy_blob(StoredEmployees)}
    \cup {snapshot_blob(v, StoredEmployees) : v \in 1..MaxStoredVersion}

----------------------------------------------------------------------------
(* The directory as a state machine *)

EmptyBucket == [k \in Keys |-> NoBlob]

\* no send_newsletter request is being handled
NoMail == [pc |-> "idle"]

\* no request is being handled by a worker thread
NoRequests == <<>>

\* process start: the module is imported, EMPLOYEES = list(CONFIG_EMPLOYEES)
\* and load_employees_from_gcs() runs against the bucket as it is
Boot(bkt, client, download_ok, upload_ok) ==
  LET r == load_employees_from_gcs(client, bkt, download_ok, upload_ok)
  IN /\ EMPLOYEES' = r.employees
     /\ bucket' = r.bucket
     /\ gcs_client' = client
     /\ last' = [op |-> "start", loaded |-> r.loaded, saved |-> r.saved]

InitDir ==
  \E snap \in InitialSnapshots, client \in BOOLEAN :
  \E download_ok \in StorageOutcomes(client) :
  \E upload_ok \in StorageOutcomes(download_ok) :
    LET bkt == [EmptyBucket EXCEPT ![EMPLOYEES_GCS_KEY] = snap]
        r == load_employees_from_gcs(client, bkt, download_ok, upload_ok)
    IN /\ EMPLOYEES = r.employees
       /\ bucket = r.bucket
       /\ gcs_client = client
       /\ last = [op |-> "start", loaded |-> r.loaded, saved |-> r.saved]
       /\ steps = 0
       /\ mail = NoMail
       /\ requests = NoRequests

\* the process is restarted
Startup ==
  /\ steps < MaxSteps
  /\ \E client \in BOOLEAN :
     \E download_ok \in StorageOutcomes(client) :
     \E upload_ok \in StorageOutcomes(download_ok) :
       Boot(bucket, client, download_ok, upload_ok)
  /\ steps' = steps + 1
  /\ UNCHANGED <<mail, requests>>

Respond(op, data, r) ==
  /\ EMPLOYEES' = r.employees
  /\ bucket' = r.bucket
  /\ last' = [op |-> op, data |-> data, status |-> r.status,
              saved |-> r.saved, idx |-> r.idx]
  /\ steps' = steps + 1
  /\ UNCHANGED <<gcs_client, mail, requests>>

AddEmployee ==
  /\ steps < MaxSteps
  /\ \E body \in AddBodies, email \in EmailInputs(EMPLOYEES),
        upload_ok \in StorageOutcomes(gcs_client) :
       LET data == [body EXCEPT !.email = email]
       IN Respond("add", data,
                  add_employee(data, EMPLOYEES, gcs_client, bucket, upload_ok))

RemoveEmployee ==
  /\ steps < MaxSteps
  /\ \E email \in EmailInputs(EMPLOYEES),
        upload_ok \in StorageOutcomes(gcs_client) :
       LET data == [present |-> {"email"}, email |-> email]
       IN Respond("remove", data,
                  remove_employee(data, EMPLOYEES, gcs_client, bucket,
                                  upload_ok))

UpdateEmployee ==
  /\ steps < MaxSteps
  /\ \E body \in UpdateBodies, email \in EmailInputs(EMPLOYEES),
        upload_ok \in StorageOutcomes(gcs_client) :
       LET data == [body EXCEPT !.email = email]
       IN Respond("update", data,
                  update_employee(data, EMPLOYEES, gcs_client, bucket,
                                  upload_ok))

NextDir == Startup \/ AddEmployee \/ RemoveEmployee \/ UpdateEmployee

SpecDir == InitDir /\ [][NextDir]_vars

----------------------------------------------------------------------------
(* Drafts and published issues *)

\* the JSON document save_draft uploads
draft_document(data) ==
  [kind |-> "doc", month |-> lower(data.month), year |-> data.year,
   lastSavedBy |-> data.savedBy, payload |-> data.payload]

\* save_draft: the response, whether an exception was raised inside the
\* handler, and the bucket afterwards
save_draft(data, client, bkt, upload_ok) ==
  IF ~client
    THEN [status |-> 503, success |-> FALSE, raised |-> FALSE, bucket |-> bkt]
  ELSE IF ~upload_ok
    THEN [status |-> 500, success |-> FALSE, raised |-> TRUE, bucket |-> bkt]
  ELSE [status |-> 200, success |-> TRUE, raised |-> FALSE,
        bucket |-> [bkt EXCEPT ![draft_blob_name(data)] = draft_document(data)]]

\* bucket.copy_blob(source_blob, bucket, new_name)
copy_blob(bkt, source, new_name) == [bkt EXCEPT ![new_name] = bkt[source]]

\* a delete that removes nothing
delete_nothing(bkt, key) == bkt

\* blob.delete()
delete_blob(bkt, key) == [bkt EXCEPT ![key] = NoBlob]

\* How a storage call of publish_draft / delete_draft can go wrong: it raises
\* without effect ("copy", "delete"), or it takes effect and the reply is
\* lost so that the client library raises all the same ("... done").
Faults == {"none", "copy", "copy done", "delete", "delete done"}

\* delete_draft: the response and the bucket afterwards; a raised exception
\* is answered with success too
delete_draft(filename, client, bkt, fault) ==
  IF ~client
    THEN [status |-> 200, success |-> TRUE, raised |-> FALSE, bucket |-> bkt]
  ELSE IF filename = <<>>
    THEN [status |-> 400, success |-> FALSE, raised |-> FALSE, bucket |-> bkt]
  ELSE IF fault = "delete"
    THEN [status |-> 200, success |-> TRUE, raised |-> TRUE, bucket |-> bkt]
  ELSE IF ~blob_exists(bkt, filename)
    THEN [status |-> 200, success |-> TRUE, raised |-> FALSE, bucket |-> bkt]
  ELSE [status |-> 200, success |-> TRUE, raised |-> FALSE,
        bucket |-> delete_blob(bkt, filename)]

\* publish_draft: the response and the bucket afterwards
publish_draft(filename, client, bkt, fault) ==
  LET target == published_name(filename)
      copied == copy_blob(bkt, filename, target)
      moved == delete_blob(copied, filename)
      failed(b) ==
        [status |-> 500, success |-> FALSE, raised |-> TRUE, bucket |-> b]
      refused(status) ==
        [status |-> status, success |-> FALSE, raised |-> FALSE, bucket |-> bkt]
  IN IF ~client THEN refused(503)
     ELSE IF filename = <<>> THEN refused(400)
     ELSE IF ~blob_exists(bkt, filename) THEN refused(404)
     ELSE IF fault = "copy" THEN failed(bkt)
     ELSE IF fault = "copy done" THEN failed(copied)
     ELSE IF fault = "delete" THEN failed(copied)
     ELSE IF fault = "delete done" THEN failed(moved)
     ELSE [status |-> 200, success |-> TRUE, raised |-> FALSE,
           bucket |-> moved]

\* load_draft: the response; downloading a blob that does not exist raises
\* (NotFound), as does a storage read that fails (download_ok = FALSE)
load_draft(filename, client, bkt, download_ok) ==
  LET answer(status, raised, draft) ==
        [status |-> status, success |-> status = 200, raised |-> raised,
         draft |-> draft]
  IN IF ~client THEN answer(503, FALSE, NoBlob)
     ELSE IF filename = <<>> THEN answer(400, FALSE, NoBlob)
     ELSE IF ~blob_exists(bkt, filename) \/ ~download_ok
       THEN answer(500, TRUE, NoBlob)
     ELSE answer(200, FALSE, bkt[filename])

\* load_published: the response; it asks blob.exists() before it downloads
load_published(filename, client, bkt, download_ok) ==
  LET answer(status, raised, draft) ==
        [status |-> status, success |-> status = 200, raised |-> raised,
         draft |-> draft]
  IN IF ~client THEN answer(503, FALSE, NoBlob)
     ELSE IF filename = <<>> THEN answer(400, FALSE, NoBlob)
     ELSE IF ~blob_exists(bkt, filename) THEN answer(404, FALSE, NoBlob)
     ELSE IF ~download_ok THEN answer(500, TRUE, NoBlob)
     ELSE answer(200, FALSE, bkt[filename])

\* the file named in a request: any key of the bucket, or none
FileInputs == Keys \cup {<<>>}

InitDocs ==
  /\ EMPLOYEES = CONFIG_EMPLOYEES
  /\ gcs_client \in BOOLEAN
  /\ bucket = [EmptyBucket EXCEPT ![EMPLOYEES_GCS_KEY] =
                 snapshot_blob(CONFIG_EMPLOYEES_VERSION, CONFIG_EMPLOYEES)]
  /\ last = [op |-> "start"]
  /\ steps = 0
  /\ mail = NoMail
  /\ requests = NoRequests

RespondDoc(op, filename, r) ==
  /\ bucket' = r.bucket
  /\ last' = [op |-> op, file |-> filename, status |-> r.status,
              success |-> r.success, raised |-> r.raised]

SaveDraft ==
  /\ \E data \in SaveBodies, upload_ok \in BOOLEAN :
       RespondDoc("save_draft", draft_blob_name(data),
                  save_draft(data, gcs_client, bucket, upload_ok))
  /\ UNCHANGED <<EMPLOYEES, gcs_client, steps, mail, requests>>

DeleteDraft ==
  /\ \E filename \in FileInputs, fault \in {"none", "delete"} :
       RespondDoc("delete_draft", filename,
                  delete_draft(filename, gcs_client, bucket, fault))
  /\ UNCHANGED <<EMPLOYEES, gcs_client, steps, mail, requests>>

PublishDraft ==
  /\ \E filename \in FileInputs, fault \in Faults :
       RespondDoc("publish_draft", filename,
                  publish_draft(filename, gcs_client, bucket, fault))
  /\ UNCHANGED <<EMPLOYEES, gcs_client, steps, mail, requests>>

LoadDraft ==
  /\ \E filename \in FileInputs, download_ok \in BOOLEAN :
       LET r == load_draft(filename, gcs_client, bucket, download_ok)
       IN last' = [op |-> "load_draft", file |-> filename,
                   status |-> r.status, success |-> r.success,
                   raised |-> r.raised, draft |-> r.draft]
  /\ UNCHANGED <<EMPLOYEES, gcs_client, bucket, steps, mail, requests>>

LoadPublished ==
  /\ \E filename \in FileInputs, download_ok \in BOOLEAN :
       LET r == load_published(filename, gcs_client, bucket, download_ok)
       IN last' = [op |-> "load_published", file |-> filename,
                   status |-> r.status, success |-> r.success,
                   raised |-> r.raised, draft |-> r.draft]
  /\ UNCHANGED <<EMPLOYEES, gcs_client, bucket, steps, mail, requests>>

NextDocs ==
  SaveDraft \/ DeleteDraft \/ PublishDraft \/ LoadDraft \/ LoadPublished

SpecDocs == InitDocs /\ [][NextDocs]_vars

----------------------------------------------------------------------------
(* Newsletter delivery *)

Recipients == {<<"a", "@", "b", "r", "i", "t", "e", ".", "c", "o">>, <<"b", "@", "b", "r", "i", "t", "e", ".", "c", "o">>}

RecipientLists ==
  UNION {[1..n -> Recipients] : n \in 0..MaxRecipients}

\* what sg.send(message) can do: return a response with a status code, or
\* raise
SendOutcomes ==
  {[kind |-> "status", code |-> 200], [kind |-> "status", code |-> 202],
   [kind |-> "status", code |-> 400],
   [kind |-> "raise", message |-> <<"t", "i", "m", "e", "d", " ", "o", "u", "t">>]}

\* a check that takes 200 for the only good status
accepted_only_200(status_code) == status_code = 200

\* response.status_code in [200, 201, 202]
accepted(status_code) == status_code \in {200, 201, 202}

\* the error string recorded for a recipient
error_text(recipient, outcome) ==
  IF outcome.kind = "status"
    THEN <<"F", "a", "i", "l", "e", "d", " ", "f", "o", "r", " ">> \o recipient \o <<":", " ", "s", "t", "a", "t", "u", "s", " ">> \o str(outcome.code)
    ELSE <<"F", "a", "i", "l", "e", "d", " ", "f", "o", "r", " ">> \o recipient \o <<":", " ">> \o outcome.message

\* send_newsletter up to the loop: the response of a rejected request, or
\* the state in which the loop starts
send_newsletter_begin(data, sendgrid_available, api_key) ==
  LET rejected(status) ==
        [pc |-> "done", data |-> data, calls |-> <<>>,
         response |-> [status |-> status, success |-> FALSE]]
  IN IF data.recipients = <<>> THEN rejected(400)
     ELSE IF data.subject = "" THEN rejected(400)
     ELSE IF data.html = "" THEN rejected(400)
     ELSE IF ~sendgrid_available THEN rejected(500)
     ELSE IF ~api_key THEN rejected(500)
     ELSE [pc |-> "loop", data |-> data, calls |-> <<>>, next |-> 1,
           sent_count |-> 0, errors |-> <<>>]

\* one iteration of the loop over the recipients
send_newsletter_iteration(m, outcome) ==
  LET recipient == m.data.recipients[m.next]
      delivered == outcome.kind = "status" /\ accepted(outcome.code)
  IN [m EXCEPT !.calls = Append(@, [to |-> recipient, outcome |-> outcome]),
               !.next = @ + 1,
               !.sent_count = IF delivered THEN @ + 1 ELSE @,
               !.errors = IF delivered THEN @
                          ELSE Append(@, error_text(recipient, outcome))]

\* the response built after the loop
send_newsletter_response(m) ==
  [status |-> 200,
   success |-> m.sent_count > 0,
   sent_count |-> m.sent_count,
   total_recipients |-> Len(m.data.recipients),
   errors |-> m.errors,
   errors_is_null |-> m.errors = <<>>]

InitSend ==
  /\ EMPLOYEES = CONFIG_EMPLOYEES
  /\ gcs_client = FALSE
  /\ bucket = EmptyBucket
  /\ last = [op |-> "start"]
  /\ steps = 0
  /\ mail = NoMail
  /\ requests = NoRequests

\* a send_newsletter request arrives and is validated
SendNewsletter ==
  /\ mail.pc \in {"idle", "done"}
  /\ \E recipients \in RecipientLists, subject \in {"", "The BriteSide"},
        html \in {"", "<html>"}, sendgrid_available \in BOOLEAN,
        api_key \in BOOLEAN :
       mail' = send_newsletter_begin(
                 [recipients |-> recipients, subject |-> subject,
                  html |-> html],
                 sendgrid_available, api_key)
  /\ UNCHANGED <<EMPLOYEES, gcs_client, bucket, last, steps, requests>>

\* the loop body runs for the next recipient
SendOne ==
  /\ mail.pc = "loop"
  /\ mail.next <= Len(mail.data.recipients)
  /\ \E outcome \in SendOutcomes :
       mail' = send_newsletter_iteration(mail, outcome)
  /\ UNCHANGED <<EMPLOYEES, gcs_client, bucket, last, steps, requests>>

\* the loop is over and the response is returned
SendRespond ==
  /\ mail.pc = "loop"
  /\ mail.next > Len(mail.data.recipients)
  /\ mail' = [pc |-> "done", data |-> mail.data, calls |-> mail.calls,
              response |-> send_newsletter_response(mail)]
  /\ UNCHANGED <<EMPLOYEES, gcs_client, bucket, last, steps, requests>>

NextSend == SendNewsletter \/ SendOne \/ SendRespond

SpecSend == InitSend /\ [][NextSend]_vars

----------------------------------------------------------------------------
(* Strings and dictionaries of the renderer *)

\* the positions at which old occurs in s
occurrences(s, old) ==
  {i \in 1..(Len(s) - Len(old) + 1) :
     s[i] = old[1] /\ SubSeq(s, i, i + Len(old) - 1) = old}

RECURSIVE replace_from(_, _, _, _, _)
replace_from(s, hits, old, new, from) ==
  LET ahead == {i \in hits : i >= from}
  IN IF ahead = {} THEN SubSeq(s, from, Len(s))
     ELSE LET i == CHOOSE j \in ahead : \A k \in ahead : j <= k
          IN SubSeq(s, from, i - 1) \o new
               \o replace_from(s, hits, old, new, i + Len(old))

\* str.replace(old, new): every occurrence, leftmost first, not overlapping
replace(s, old, new) == replace_from(s, occurrences(s, old), old, new, 1)

\* html.escape(s): the five replacements in the library's order
html_escape(s) ==
  replace(replace(replace(replace(replace(s,
    <<"&">>, <<"&", "a", "m", "p", ";">>), <<"<">>, <<"&", "l", "t", ";">>), <<">">>, <<"&", "g", "t", ";">>), <<"\"">>, <<"&", "q", "u", "o", "t", ";">>), <<"'">>, <<"&", "#", "x", "2", "7", ";">>)

\* an esc that lets the text through as it is
esc_raw(text) == text

\* esc(text) for a string
esc(text) == IF text = <<>> THEN <<>> ELSE html_escape(text)

\* esc(text) for a number: 0 is falsy and gives '', any other is str(text)
esc_number(n) == IF n = 0 THEN <<>> ELSE html_escape(str(n))

\* sep.join(items)
RECURSIVE join(_, _)
join(items, sep) ==
  IF items = <<>> THEN <<>>
  ELSE IF Len(items) = 1 THEN items[1]
  ELSE items[1] \o sep \o join(Tail(items), sep)

\* str.rstrip('/')
RECURSIVE rstrip_slash(_)
rstrip_slash(s) ==
  IF s # <<>> /\ s[Len(s)] = "/" THEN rstrip_slash(SubSeq(s, 1, Len(s) - 1))
  ELSE s

\* a split that cuts at the last separator
split_at_last(s, sep) ==
  LET hits == occurrences(s, sep)
      i == CHOOSE j \in hits : \A k \in hits : k <= j
  IN <<SubSeq(s, 1, i - 1), SubSeq(s, i + Len(sep), Len(s))>>

\* str.split(sep, 1) of a string that holds sep
split_once(s, sep) ==
  LET i == find(s, sep)
  IN <<SubSeq(s, 1, i - 1), SubSeq(s, i + Len(sep), Len(s))>>

\* dict.get(key, default): a dictionary is a function of its keys, and the
\* empty dictionary is the function of no key
dict_get(d, key, default) == IF key \in DOMAIN d THEN d[key] ELSE default

----------------------------------------------------------------------------
(* render_email: the fragments *)

FONT == <<"-", "a", "p", "p", "l", "e", "-", "s", "y", "s", "t", "e", "m", ",", " ", "B", "l", "i", "n", "k", "M", "a", "c", "S", "y", "s", "t", "e", "m", "F", "o", "n", "t", ",", " ", "'", "S", "e", "g", "o", "e", " ", "U", "I", "'", ",", " ", "R", "o", "b", "o", "t", "o", ",", " ", "A", "r", "i", "a", "l", ",", " ", "s", "a", "n", "s", "-", "s", "e", "r", "i", "f">>

\* one row of the birthday table
birthday_item(bday, month) ==
  LET bday_name == esc(dict_get(bday, "name", <<>>))
      bday_day == esc_number(dict_get(bday, "birthday_day", 0))
      bday_dept == esc(dict_get(bday, "department", <<>>))
  IN <<"<", "t", "r", ">", "<", "t", "d", " ", "s", "t", "y", "l", "e", "=", "\"", "p", "a", "d", "d", "i", "n", "g", ":", " ", "6", "p", "x", " ", "1", "2", "p", "x", ";", " ", "f", "o", "n", "t", "-", "f", "a", "m", "i", "l", "y", ":", " ">> \o FONT
       \o <<";", " ", "f", "o", "n", "t", "-", "s", "i", "z", "e", ":", " ", "1", "5", "p", "x", ";", " ", "f", "o", "n", "t", "-", "w", "e", "i", "g", "h", "t", ":", " ", "6", "0", "0", ";", " ", "c", "o", "l", "o", "r", ":", " ", "#", "2", "7", "2", "D", "3", "F", ";", "\"", ">">>
       \o bday_name \o <<"<", "/", "t", "d", ">">>
       \o <<"<", "t", "d", " ", "s", "t", "y", "l", "e", "=", "\"", "p", "a", "d", "d", "i", "n", "g", ":", " ", "6", "p", "x", " ", "1", "2", "p", "x", ";", " ", "f", "o", "n", "t", "-", "f", "a", "m", "i", "l", "y", ":", " ">> \o FONT
       \o <<";", " ", "f", "o", "n", "t", "-", "s", "i", "z", "e", ":", " ", "1", "5", "p", "x", ";", " ", "c", "o", "l", "o", "r", ":", " ", "#", "6", "b", "7", "2", "8", "0", ";", "\"", ">">>
       \o month \o <<" ">> \o bday_day \o <<"<", "/", "t", "d", ">">>
       \o <<"<", "t", "d", " ", "s", "t", "y", "l", "e", "=", "\"", "p", "a", "d", "d", "i", "n", "g", ":", " ", "6", "p", "x", " ", "1", "2", "p", "x", ";", " ", "f", "o", "n", "t", "-", "f", "a", "m", "i", "l", "y", ":", " ">> \o FONT
       \o <<";", " ", "f", "o", "n", "t", "-", "s", "i", "z", "e", ":", " ", "1", "5", "p", "x", ";", " ", "c", "o", "l", "o", "r", ":", " ", "#", "6", "b", "7", "2", "8", "0", ";", "\"", ">">>
       \o bday_dept \o <<"<", "/", "t", "d", ">", "<", "/", "t", "r", ">">>

birthday_html(birthdays, month) ==
  IF birthdays = <<>> THEN <<>>
  ELSE join([i \in 1..Len(birthdays) |-> birthday_item(birthdays[i], month)],
            <<"\n">>)

\* one row of the welcome table
hire_item(hire) ==
  LET h_name == esc(dict_get(hire, "name", <<>>))
      h_role == esc(dict_get(hire, "role", <<>>))
      h_fact == esc(dict_get(hire, "fun_fact", <<>>))
  IN <<"<", "t", "r", ">", "<", "t", "d", " ", "a", "l", "i", "g", "n", "=", "\"", "c", "e", "n", "t", "e", "r", "\"", " ", "s", "t", "y", "l", "e", "=", "\"", "p", "a", "d", "d", "i", "n", "g", ":", " ", "1", "4", "p", "x", " ", "0", ";", " ", "b", "o", "r", "d", "e", "r", "-", "b", "o", "t", "t", "o", "m", ":", " ", "1", "p", "x", " ", "s", "o", "l", "i", "d", " ", "#", "e", "8", "f", "5", "f", "5", ";", " ", "f", "o", "n", "t", "-", "f", "a", "m", "i", "l", "y", ":", " ">>
       \o FONT \o <<";", " ", "t", "e", "x", "t", "-", "a", "l", "i", "g", "n", ":", " ", "c", "e", "n", "t", "e", "r", ";", "\"", ">">>
       \o <<"<", "p", " ", "s", "t", "y", "l", "e", "=", "\"", "m", "a", "r", "g", "i", "n", ":", " ", "0", " ", "0", " ", "2", "p", "x", " ", "0", ";", " ", "f", "o", "n", "t", "-", "f", "a", "m", "i", "l", "y", ":", " ">> \o FONT
       \o <<";", " ", "f", "o", "n", "t", "-", "s", "i", "z", "e", ":", " ", "1", "7", "p", "x", ";", " ", "f", "o", "n", "t", "-", "w", "e", "i", "g", "h", "t", ":", " ", "7", "0", "0", ";", " ", "c", "o", "l", "o", "r", ":", " ", "#", "2", "7", "2", "D", "3", "F", ";", "\"", ">">>
       \o h_name \o <<"<", "/", "p", ">">>
       \o <<"<", "p", " ", "s", "t", "y", "l", "e", "=", "\"", "m", "a", "r", "g", "i", "n", ":", " ", "0", ";", " ", "f", "o", "n", "t", "-", "f", "a", "m", "i", "l", "y", ":", " ">> \o FONT
       \o <<";", " ", "f", "o", "n", "t", "-", "s", "i", "z", "e", ":", " ", "1", "4", "p", "x", ";", " ", "c", "o", "l", "o", "r", ":", " ", "#", "3", "1", "D", "7", "C", "A", ";", " ", "f", "o", "n", "t", "-", "s", "t", "y", "l", "e", ":", " ", "i", "t", "a", "l", "i", "c", ";", "\"", ">">>
       \o h_role \o <<"<", "/", "p", ">">>
       \o (IF h_fact # <<>>
             THEN <<"<", "p", " ", "s", "t", "y", "l", "e", "=", "\"", "m", "a", "r", "g", "i", "n", ":", " ", "4", "p", "x", " ", "0", " ", "0", " ", "0", ";", " ", "f", "o", "n", "t", "-", "f", "a", "m", "i", "l", "y", ":", " ">> \o FONT
                    \o <<";", " ", "f", "o", "n", "t", "-", "s", "i", "z", "e", ":", " ", "1", "3", "p", "x", ";", " ", "c", "o", "l", "o", "r", ":", " ", "#", "6", "b", "7", "2", "8", "0", ";", "\"", ">", "F", "u", "n", " ", "f", "a", "c", "t", ":", " ">>
                    \o h_fact \o <<"<", "/", "p", ">">>
             ELSE <<>>)
       \o <<"<", "/", "t", "d", ">", "<", "/", "t", "r", ">">>

welcome_html(welcome_enabled, welcome_hires) ==
  IF welcome_enabled /\ welcome_hires # <<>>
    THEN join([i \in 1..Len(welcome_hires) |-> hire_item(welcome_hires[i])],
              <<"\n">>)
    ELSE <<>>

\* one question and its answer of a spotlight, nothing when either is empty
qa_item(pair) ==
  LET q_text == esc(dict_get(pair, "q", <<>>))
      a_text == esc(dict_get(pair, "a", <<>>))
  IN IF q_text # <<>> /\ a_text # <<>>
       THEN <<"<", "t", "r", ">", "<", "t", "d", " ", "a", "l", "i", "g", "n", "=", "\"", "c", "e", "n", "t", "e", "r", "\"", " ", "s", "t", "y", "l", "e", "=", "\"", "p", "a", "d", "d", "i", "n", "g", ":", " ", "6", "p", "x", " ", "0", ";", " ", "t", "e", "x", "t", "-", "a", "l", "i", "g", "n", ":", " ", "c", "e", "n", "t", "e", "r", ";", "\"", ">">>
              \o <<"<", "p", " ", "s", "t", "y", "l", "e", "=", "\"", "m", "a", "r", "g", "i", "n", ":", " ", "0", ";", " ", "f", "o", "n", "t", "-", "f", "a", "m", "i", "l", "y", ":", " ">> \o FONT
              \o <<";", " ", "f", "o", "n", "t", "-", "s", "i", "z", "e", ":", " ", "1", "4", "p", "x", ";", " ", "c", "o", "l", "o", "r", ":", " ", "#", "2", "7", "2", "D", "3", "F", ";", " ", "f", "o", "n", "t", "-", "w", "e", "i", "g", "h", "t", ":", " ", "7", "0", "0", ";", "\"", ">">>
              \o q_text \o <<"<", "/", "p", ">">>
              \o <<"<", "p", " ", "s", "t", "y", "l", "e", "=", "\"", "m", "a", "r", "g", "i", "n", ":", " ", "0", ";", " ", "f", "o", "n", "t", "-", "f", "a", "m", "i", "l", "y", ":", " ">> \o FONT
              \o <<";", " ", "f", "o", "n", "t", "-", "s", "i", "z", "e", ":", " ", "1", "5", "p", "x", ";", " ", "c", "o", "l", "o", "r", ":", " ", "#", "4", "4", "4", "4", "4", "4", ";", "\"", ">">>
              \o a_text \o <<"<", "/", "p", ">">>
              \o <<"<", "/", "t", "d", ">", "<", "/", "t", "r", ">">>
       ELSE <<>>

\* the table of one spotlight, after a separator when it is not the first
spotlight_item(sp_idx, sp) ==
  LET sp_name == esc(dict_get(sp, "name", <<>>))
      sp_title == esc(dict_get(sp, "title", <<>>))
      sp_blurb == esc(dict_get(sp, "blurb", <<>>))
      sp_fun_facts == esc(dict_get(sp, "fun_facts", <<>>))
      sp_image_url == dict_get(sp, "image_url", <<>>)
      sp_qa == dict_get(sp, "qa", <<>>)
      qa_html == join([i \in 1..Len(sp_qa) |-> qa_item(sp_qa[i])], <<>>)
  IN (IF sp_idx > 0
        THEN <<"<", "t", "a", "b", "l", "e", " ", "r", "o", "l", "e", "=", "\"", "p", "r", "e", "s", "e", "n", "t", "a", "t", "i", "o", "n", "\"", " ", "c", "e", "l", "l", "s", "p", "a", "c", "i", "n", "g", "=", "\"", "0", "\"", " ", "c", "e", "l", "l", "p", "a", "d", "d", "i", "n", "g", "=", "\"", "0", "\"", " ", "b", "o", "r", "d", "e", "r", "=", "\"", "0", "\"", " ", "w", "i", "d", "t", "h", "=", "\"", "1", "0", "0", "%", "\"", ">">>
               \o <<"<", "t", "r", ">", "<", "t", "d", " ", "s", "t", "y", "l", "e", "=", "\"", "h", "e", "i", "g", "h", "t", ":", " ", "1", "p", "x", ";", " ", "p", "a", "d", "d", "i", "n", "g", ":", " ", "2", "8", "p", "x", " ", "0", ";", " ", "f", "o", "n", "t", "-", "s", "i", "z", "e", ":", " ", "1", "p", "x", ";", " ", "l", "i", "n", "e", "-", "h", "e", "i", "g", "h", "t", ":", " ", "1", "p", "x", ";", "\"", ">">>
               \o <<"<", "t", "a", "b", "l", "e", " ", "r", "o", "l", "e", "=", "\"", "p", "r", "e", "s", "e", "n", "t", "a", "t", "i", "o", "n", "\"", " ", "c", "e", "l", "l", "s", "p", "a", "c", "i", "n", "g", "=", "\"", "0", "\"", " ", "c", "e", "l", "l", "p", "a", "d", "d", "i", "n", "g", "=", "\"", "0", "\"", " ", "b", "o", "r", "d", "e", "r", "=", "\"", "0", "\"", " ", "w", "i", "d", "t", "h", "=", "\"", "1", "0", "0", "%", "\"", ">">>
               \o <<"<", "t", "r", ">", "<", "t", "d", " ", "s", "t", "y", "l", "e", "=", "\"", "h", "e", "i", "g", "h", "t", ":", " ", "0", ";", " ", "b", "o", "r", "d", "e", "r", "-", "t", "o", "p", ":", " ", "2", "p", "x", " ", "d", "a", "s", "h", "e", "d", " ", "#", "3", "1", "D", "7", "C", "A", ";", " ", "f", "o", "n", "t", "-", "s", "i", "z", "e", ":", " ", "1", "p", "x", ";", " ", "l", "i", "n", "e", "-", "h", "e", "i", "g", "h", "t", ":", " ", "1", "p", "x", ";", "\"", ">", "&", "n", "b", "s", "p", ";", "<", "/", "t", "d", ">", "<", "/", "t", "r", ">">>
               \o <<"<", "/", "t", "a", "b", "l", "e", ">", "<", "/", "t", "d", ">", "<", "/", "t", "r", ">", "<", "/", "t", "a", "b", "l", "e", ">">>
        ELSE <<>>)
     \o <<"<", "t", "a", "b", "l", "e", " ", "r", "o", "l", "e", "=", "\"", "p", "r", "e", "s", "e", "n", "t", "a", "t", "i", "o", "n", "\"", " ", "c", "e", "l", "l", "s", "p", "a", "c", "i", "n", "g", "=", "\"", "0", "\"", " ", "c", "e", "l", "l", "p", "a", "d", "d", "i", "n", "g", "=", "\"", "0", "\"", " ", "b", "o", "r", "d", "e", "r", "=", "\"", "0", "\"", " ", "w", "i", "d", "t", "h", "=", "\"", "1", "0", "0", "%", "\"", ">">>
     \o (IF sp_image_url # <<>>
           THEN <<"<", "t", "r", ">", "<", "t", "d", " ", "a", "l", "i", "g", "n", "=", "\"", "c", "e", "n", "t", "e", "r", "\"", " ", "s", "t", "y", "l", "e", "=", "\"", "p", "a", "d", "d", "i", "n", "g", "-", "b", "o", "t", "t", "o", "m", ":", " ", "1", "6", "p", "x", ";", "\"", ">">>
                  \o <<"<", "!", "-", "-", "[", "i", "f", " ", "!", "m", "s", "o", "]", ">", "<", "!", "-", "-", ">">>
                  \o <<"<", "i", "m", "g", " ", "s", "r", "c", "=", "\"">> \o sp_image_url \o <<"\"", " ", "w", "i", "d", "t", "h", "=", "\"", "1", "2", "0", "\"", " ", "a", "l", "t", "=", "\"">>
                  \o sp_name \o <<"\"", " ">>
                  \o <<"s", "t", "y", "l", "e", "=", "\"", "w", "i", "d", "t", "h", ":", " ", "1", "2", "0", "p", "x", ";", " ", "h", "e", "i", "g", "h", "t", ":", " ", "1", "2", "0", "p", "x", ";", " ", "b", "o", "r", "d", "e", "r", "-", "r", "a", "d", "i", "u", "s", ":", " ", "5", "0", "%", ";", " ", "o", "b", "j", "e", "c", "t", "-", "f", "i", "t", ":", " ", "c", "o", "v", "e", "r", ";", " ", "d", "i", "s", "p", "l", "a", "y", ":", " ", "b", "l", "o", "c", "k", ";", "\"", ">">>
                  \o <<"<", "!", "-", "-", "<", "!", "[", "e", "n", "d", "i", "f", "]", "-", "-", ">">>
                  \o <<"<", "!", "-", "-", "[", "i", "f", " ", "m", "s", "o", "]", ">">>
                  \o <<"<", "i", "m", "g", " ", "s", "r", "c", "=", "\"">> \o sp_image_url \o <<"\"", " ", "w", "i", "d", "t", "h", "=", "\"", "1", "2", "0", "\"", " ", "a", "l", "t", "=", "\"">>
                  \o sp_name \o <<"\"", " ">>
                  \o <<"s", "t", "y", "l", "e", "=", "\"", "w", "i", "d", "t", "h", ":", " ", "1", "2", "0", "p", "x", ";", " ", "h", "e", "i", "g", "h", "t", ":", " ", "a", "u", "t", "o", ";", " ", "d", "i", "s", "p", "l", "a", "y", ":", " ", "b", "l", "o", "c", "k", ";", "\"", ">">>
                  \o <<"<", "!", "[", "e", "n", "d", "i", "f", "]", "-", "-", ">">>
                  \o <<"<", "/", "t", "d", ">", "<", "/", "t", "r", ">">>
           ELSE <<>>)
     \o <<"<", "t", "r", ">", "<", "t", "d", " ", "a", "l", "i", "g", "n", "=", "\"", "c", "e", "n", "t", "e", "r", "\"", " ", "s", "t", "y", "l", "e", "=", "\"", "p", "a", "d", "d", "i", "n", "g", "-", "b", "o", "t", "t", "o", "m", ":", " ", "2", "p", "x", ";", "\"", ">">>
     \o <<"<", "p", " ", "s", "t", "y", "l", "e", "=", "\"", "m", "a", "r", "g", "i", "n", ":", " ", "0", ";", " ", "f", "o", "n", "t", "-", "f", "a", "m", "i", "l", "y", ":", " ">> \o FONT
     \o <<";", " ", "f", "o", "n", "t", "-", "s", "i", "z", "e", ":", " ", "2", "0", "p", "x", ";", " ", "f", "o", "n", "t", "-", "w", "e", "i", "g", "h", "t", ":", " ", "8", "0", "0", ";", " ", "c", "o", "l", "o", "r", ":", " ", "#", "2", "7", "2", "D", "3", "F", ";", "\"", ">">>
     \o sp_name \o <<"<", "/", "p", ">">>
     \o <<"<", "/", "t", "d", ">", "<", "/", "t", "r", ">">>
     \o <<"<", "t", "r", ">", "<", "t", "d", " ", "a", "l", "i", "g", "n", "=", "\"", "c", "e", "n", "t", "e", "r", "\"", " ", "s", "t", "y", "l", "e", "=", "\"", "p", "a", "d", "d", "i", "n", "g", "-", "b", "o", "t", "t", "o", "m", ":", " ", "1", "6", "p", "x", ";", "\"", ">">>
     \o <<"<", "p", " ", "s", "t", "y", "l", "e", "=", "\"", "m", "a", "r", "g", "i", "n", ":", " ", "0", ";", " ", "f", "o", "n", "t", "-", "f", "a", "m", "i", "l", "y", ":", " ">> \o FONT
     \o <<";", " ", "f", "o", "n", "t", "-", "s", "i", "z", "e", ":", " ", "1", "3", "p", "x", ";", " ", "f", "o", "n", "t", "-", "w", "e", "i", "g", "h", "t", ":", " ", "7", "0", "0", ";", " ", "c", "o", "l", "o", "r", ":", " ", "#", "3", "1", "D", "7", "C", "A", ";", " ", "t", "e", "x", "t", "-", "t", "r", "a", "n", "s", "f", "o", "r", "m", ":", " ", "u", "p", "p", "e", "r", "c", "a", "s", "e", ";", " ", "l", "e", "t", "t", "e", "r", "-", "s", "p", "a", "c", "i", "n", "g", ":", " ", "1", "p", "x", ";", "\"", ">">>
     \o sp_title \o <<"<", "/", "p", ">">>
     \o <<"<", "/", "t", "d", ">", "<", "/", "t", "r", ">">>
     \o (IF qa_html # <<>>
           THEN <<"<", "t", "r", ">", "<", "t", "d", " ", "s", "t", "y", "l", "e", "=", "\"", "p", "a", "d", "d", "i", "n", "g", ":", " ", "0", " ", "0", " ", "1", "6", "p", "x", " ", "0", ";", "\"", ">">>
                  \o <<"<", "t", "a", "b", "l", "e", " ", "r", "o", "l", "e", "=", "\"", "p", "r", "e", "s", "e", "n", "t", "a", "t", "i", "o", "n", "\"", " ", "c", "e", "l", "l", "s", "p", "a", "c", "i", "n", "g", "=", "\"", "0", "\"", " ", "c", "e", "l", "l", "p", "a", "d", "d", "i", "n", "g", "=", "\"", "0", "\"", " ", "b", "o", "r", "d", "e", "r", "=", "\"", "0", "\"", " ", "w", "i", "d", "t", "h", "=", "\"", "1", "0", "0", "%", "\"", ">">>
                  \o qa_html \o <<"<", "/", "t", "a", "b", "l", "e", ">", "<", "/", "t", "d", ">", "<", "/", "t", "r", ">">>
           ELSE <<>>)
     \o (IF sp_blurb # <<>>
           THEN <<"<", "t", "r", ">", "<", "t", "d", " ", "a", "l", "i", "g", "n", "=", "\"", "c", "e", "n", "t", "e", "r", "\"", " ", "s", "t", "y", "l", "e", "=", "\"", "p", "a", "d", "d", "i", "n", "g", "-", "b", "o", "t", "t", "o", "m", ":", " ", "8", "p", "x", ";", " ", "t", "e", "x", "t", "-", "a", "l", "i", "g", "n", ":", " ", "c", "e", "n", "t", "e", "r", ";", "\"", ">">>
                  \o <<"<", "p", " ", "s", "t", "y", "l", "e", "=", "\"", "m", "a", "r", "g", "i", "n", ":", " ", "0", ";", " ", "f", "o", "n", "t", "-", "f", "a", "m", "i", "l", "y", ":", " ">> \o FONT
                  \o <<";", " ", "f", "o", "n", "t", "-", "s", "i", "z", "e", ":", " ", "1", "5", "p", "x", ";", " ", "l", "i", "n", "e", "-", "h", "e", "i", "g", "h", "t", ":", " ", "2", "5", "p", "x", ";", " ", "c", "o", "l", "o", "r", ":", " ", "#", "4", "4", "4", "4", "4", "4", ";", " ", "f", "o", "n", "t", "-", "s", "t", "y", "l", "e", ":", " ", "i", "t", "a", "l", "i", "c", ";", "\"", ">">>
                  \o sp_blurb \o <<"<", "/", "p", ">">>
                  \o <<"<", "/", "t", "d", ">", "<", "/", "t", "r", ">">>
           ELSE <<>>)
     \o (IF sp_fun_facts # <<>>
           THEN <<"<", "t", "r", ">", "<", "t", "d", " ", "a", "l", "i", "g", "n", "=", "\"", "c", "e", "n", "t", "e", "r", "\"", " ", "s", "t", "y", "l", "e", "=", "\"", "p", "a", "d", "d", "i", "n", "g", "-", "b", "o", "t", "t", "o", "m", ":", " ", "8", "p", "x", ";", " ", "t", "e", "x", "t", "-", "a", "l", "i", "g", "n", ":", " ", "c", "e", "n", "t", "e", "r", ";", "\"", ">">>
                  \o <<"<", "p", " ", "s", "t", "y", "l", "e", "=", "\"", "m", "a", "r", "g", "i", "n", ":", " ", "0", ";", " ", "f", "o", "n", "t", "-", "f", "a", "m", "i", "l", "y", ":", " ">> \o FONT
                  \o <<";", " ", "f", "o", "n", "t", "-", "s", "i", "z", "e", ":", " ", "1", "4", "p", "x", ";", " ", "l", "i", "n", "e", "-", "h", "e", "i", "g", "h", "t", ":", " ", "2", "2", "p", "x", ";", " ", "c", "o", "l", "o", "r", ":", " ", "#", "6", "b", "7", "2", "8", "0", ";", "\"", ">", "F", "u", "n", " ", "f", "a", "c", "t", ":", " ">>
                  \o sp_fun_facts \o <<"<", "/", "p", ">">>
                  \o <<"<", "/", "t", "d", ">", "<", "/", "t", "r", ">">>
           ELSE <<>>)
     \o <<"<", "/", "t", "a", "b", "l", "e", ">">>

\* a spotlight that counts: a dictionary with a name
has_name(sp) == DOMAIN sp # {} /\ dict_get(sp, "name", <<>>) # <<>>

\* the spotlights array if it has entries, else the single spotlight
spotlight_list(spotlight, spotlights) ==
  IF spotlights # <<>> THEN spotlights
  ELSE IF has_name(spotlight) THEN <<spotlight>> ELSE <<>>

spotlight_section_html(spotlight, spotlights) ==
  LET valid_spotlights == SelectSeq(spotlight_list(spotlight, spotlights), has_name)
  IN join([i \in 1..Len(valid_spotlights) |->
            spotlight_item(i - 1, valid_spotlights[i])], <<>>)

\* the image of the single-spotlight placeholder
spotlight_image_html(spotlight) ==
  LET spotlight_name == dict_get(spotlight, "name", <<>>)
      spotlight_image_url == dict_get(spotlight, "image_url", <<>>)
  IN IF spotlight_image_url # <<>>
       THEN <<"<", "i", "m", "g", " ", "s", "r", "c", "=", "\"">> \o spotlight_image_url \o <<"\"", " ", "w", "i", "d", "t", "h", "=", "\"", "1", "2", "0", "\"", " ", "a", "l", "t", "=", "\"">>
              \o spotlight_name \o <<"\"", " ">>
              \o <<"s", "t", "y", "l", "e", "=", "\"", "w", "i", "d", "t", "h", ":", " ", "1", "2", "0", "p", "x", ";", " ", "h", "e", "i", "g", "h", "t", ":", " ", "1", "2", "0", "p", "x", ";", " ", "b", "o", "r", "d", "e", "r", "-", "r", "a", "d", "i", "u", "s", ":", " ", "5", "0", "%", ";", " ", "o", "b", "j", "e", "c", "t", "-", "f", "i", "t", ":", " ", "c", "o", "v", "e", "r", ";", " ", "d", "i", "s", "p", "l", "a", "y", ":", " ", "b", "l", "o", "c", "k", ";", "\"", " ">>
              \o <<"c", "l", "a", "s", "s", "=", "\"", "m", "o", "b", "i", "l", "e", "-", "i", "m", "g", "-", "f", "u", "l", "l", "\"", ">">>
       ELSE <<>>

\* a width that is never the whole row
cell_width_half(n, p_idx) == <<"5", "0", "%">>

\* the width of the cell of photo p_idx (from 0) among n photos
cell_width(n, p_idx) ==
  IF (n - p_idx) >= 2 \/ p_idx % 2 = 1 THEN <<"5", "0", "%">> ELSE <<"1", "0", "0", "%">>

\* the cell of photo p_idx, after a row break when a new row starts
photo_cell(photos, p_idx) ==
  LET n == Len(photos)
      photo_url == photos[p_idx + 1]
      pad_right == IF p_idx % 2 = 0 /\ (p_idx + 1) < n THEN <<"4", "p", "x">> ELSE <<"0">>
      pad_left == IF p_idx % 2 = 1 THEN <<"4", "p", "x">> ELSE <<"0">>
      colspan == IF cell_width(n, p_idx) = <<"1", "0", "0", "%">> THEN <<" ", "c", "o", "l", "s", "p", "a", "n", "=", "\"", "2", "\"">> ELSE <<>>
  IN (IF p_idx > 0 /\ p_idx % 2 = 0 THEN <<"<", "/", "t", "r", ">", "<", "t", "r", ">">> ELSE <<>>)
     \o <<"<", "t", "d">> \o colspan \o <<" ", "w", "i", "d", "t", "h", "=", "\"">> \o cell_width(n, p_idx)
     \o <<"\"", " ", "s", "t", "y", "l", "e", "=", "\"", "p", "a", "d", "d", "i", "n", "g", "-", "r", "i", "g", "h", "t", ":", " ">> \o pad_right \o <<";", " ", "p", "a", "d", "d", "i", "n", "g", "-", "l", "e", "f", "t", ":", " ">>
     \o pad_left \o <<";", " ", "p", "a", "d", "d", "i", "n", "g", "-", "b", "o", "t", "t", "o", "m", ":", " ", "8", "p", "x", ";", "\"", " ", "v", "a", "l", "i", "g", "n", "=", "\"", "t", "o", "p", "\"", ">">>
     \o <<"<", "i", "m", "g", " ", "s", "r", "c", "=", "\"">> \o photo_url \o <<"\"", " ", "w", "i", "d", "t", "h", "=", "\"", "2", "4", "8", "\"", " ">>
     \o <<"s", "t", "y", "l", "e", "=", "\"", "w", "i", "d", "t", "h", ":", " ", "1", "0", "0", "%", ";", " ", "h", "e", "i", "g", "h", "t", ":", " ", "a", "u", "t", "o", ";", " ", "b", "o", "r", "d", "e", "r", "-", "r", "a", "d", "i", "u", "s", ":", " ", "8", "p", "x", ";", " ", "d", "i", "s", "p", "l", "a", "y", ":", " ", "b", "l", "o", "c", "k", ";", "\"", " ">>
     \o <<"a", "l", "t", "=", "\"", "U", "p", "d", "a", "t", "e", " ", "p", "h", "o", "t", "o", "\"", " ", "c", "l", "a", "s", "s", "=", "\"", "m", "o", "b", "i", "l", "e", "-", "i", "m", "g", "-", "f", "u", "l", "l", "\"", ">">>
     \o <<"<", "/", "t", "d", ">">>

\* the image block of an update
photos_html(u) ==
  LET photos == SelectSeq(dict_get(u, "photos", <<>>), LAMBDA p : p # <<>>)
  IN IF Len(photos) = 1
       THEN <<"<", "i", "m", "g", " ", "s", "r", "c", "=", "\"">> \o photos[1] \o <<"\"", " ", "w", "i", "d", "t", "h", "=", "\"", "5", "1", "6", "\"", " ">>
              \o <<"s", "t", "y", "l", "e", "=", "\"", "w", "i", "d", "t", "h", ":", " ", "1", "0", "0", "%", ";", " ", "h", "e", "i", "g", "h", "t", ":", " ", "a", "u", "t", "o", ";", " ", "b", "o", "r", "d", "e", "r", "-", "r", "a", "d", "i", "u", "s", ":", " ", "8", "p", "x", ";", " ", "m", "a", "r", "g", "i", "n", "-", "t", "o", "p", ":", " ", "1", "2", "p", "x", ";", " ", "d", "i", "s", "p", "l", "a", "y", ":", " ", "b", "l", "o", "c", "k", ";", "\"", " ">>
              \o <<"a", "l", "t", "=", "\"", "U", "p", "d", "a", "t", "e", " ", "p", "h", "o", "t", "o", "\"", " ", "c", "l", "a", "s", "s", "=", "\"", "m", "o", "b", "i", "l", "e", "-", "i", "m", "g", "-", "f", "u", "l", "l", "\"", ">">>
     ELSE IF Len(photos) >= 2
       THEN <<"<", "t", "a", "b", "l", "e", " ", "r", "o", "l", "e", "=", "\"", "p", "r", "e", "s", "e", "n", "t", "a", "t", "i", "o", "n", "\"", " ", "c", "e", "l", "l", "s", "p", "a", "c", "i", "n", "g", "=", "\"", "0", "\"", " ", "c", "e", "l", "l", "p", "a", "d", "d", "i", "n", "g", "=", "\"", "0", "\"", " ", "b", "o", "r", "d", "e", "r", "=", "\"", "0", "\"", " ", "w", "i", "d", "t", "h", "=", "\"", "1", "0", "0", "%", "\"", " ", "s", "t", "y", "l", "e", "=", "\"", "m", "a", "r", "g", "i", "n", "-", "t", "o", "p", ":", " ", "1", "2", "p", "x", ";", "\"", ">">>
              \o <<"<", "t", "r", ">">>
              \o join([i \in 1..Len(photos) |-> photo_cell(photos, i - 1)], <<>>)
              \o <<"<", "/", "t", "r", ">", "<", "/", "t", "a", "b", "l", "e", ">">>
     ELSE <<>>

\* the updates that are rendered: none when the section is switched off
shown_updates(updates, updates_enabled) ==
  IF updates_enabled THEN updates ELSE <<>>

\* the title or body of update i (from 1; only three are read)
update_text(updates, i, key) ==
  IF i <= Len(updates) THEN esc(dict_get(updates[i], key, <<>>)) ELSE <<>>

\* the image block of update i

update_photos_html(updates, i) ==
  IF i <= Len(updates) THEN photos_html(updates[i]) ELSE <<>>

game_section_html(game) ==
  LET game_content == dict_get(game, "content", <<>>)
      game_image_url == dict_get(game, "image_url", <<>>)
      game_previous_answer == dict_get(game, "previous_answer", <<>>)
  IN IF game_content # <<>> \/ game_image_url # <<>>
       THEN <<"<", "t", "a", "b", "l", "e", " ", "r", "o", "l", "e", "=", "\"", "p", "r", "e", "s", "e", "n", "t", "a", "t", "i", "o", "n", "\"", " ", "c", "e", "l", "l", "s", "p", "a", "c", "i", "n", "g", "=", "\"", "0", "\"", " ", "c", "e", "l", "l", "p", "a", "d", "d", "i", "n", "g", "=", "\"", "0", "\"", " ", "b", "o", "r", "d", "e", "r", "=", "\"", "0", "\"", " ", "w", "i", "d", "t", "h", "=", "\"", "1", "0", "0", "%", "\"", ">">>
              \o (IF game_image_url # <<>>
                    THEN <<"<", "t", "r", ">", "<", "t", "d", " ", "a", "l", "i", "g", "n", "=", "\"", "c", "e", "n", "t", "e", "r", "\"", " ", "s", "t", "y", "l", "e", "=", "\"", "p", "a", "d", "d", "i", "n", "g", "-", "b", "o", "t", "t", "o", "m", ":", " ", "1", "0", "p", "x", ";", " ", "t", "e", "x", "t", "-", "a", "l", "i", "g", "n", ":", " ", "c", "e", "n", "t", "e", "r", ";", "\"", ">">>
                           \o <<"<", "i", "m", "g", " ", "s", "r", "c", "=", "\"">> \o game_image_url \o <<"\"", " ", "w", "i", "d", "t", "h", "=", "\"", "4", "6", "0", "\"", " ">>
                           \o <<"s", "t", "y", "l", "e", "=", "\"", "w", "i", "d", "t", "h", ":", " ", "1", "0", "0", "%", ";", " ", "m", "a", "x", "-", "w", "i", "d", "t", "h", ":", " ", "4", "6", "0", "p", "x", ";", " ", "h", "e", "i", "g", "h", "t", ":", " ", "a", "u", "t", "o", ";", " ", "b", "o", "r", "d", "e", "r", "-", "r", "a", "d", "i", "u", "s", ":", " ", "8", "p", "x", ";", " ", "d", "i", "s", "p", "l", "a", "y", ":", " ", "b", "l", "o", "c", "k", ";", " ", "m", "a", "r", "g", "i", "n", ":", " ", "0", " ", "a", "u", "t", "o", ";", "\"", " ">>
                           \o <<"a", "l", "t", "=", "\"", "B", "r", "i", "t", "e", "S", "i", "d", "e", " ", "B", "r", "a", "i", "n", " ", "T", "e", "a", "s", "e", "r", "\"", ">">>
                           \o <<"<", "/", "t", "d", ">", "<", "/", "t", "r", ">">>
                    ELSE <<>>)
              \o (IF game_content # <<>>
                    THEN <<"<", "t", "r", ">", "<", "t", "d", " ", "a", "l", "i", "g", "n", "=", "\"", "c", "e", "n", "t", "e", "r", "\"", " ", "s", "t", "y", "l", "e", "=", "\"", "p", "a", "d", "d", "i", "n", "g", "-", "b", "o", "t", "t", "o", "m", ":", " ", "1", "0", "p", "x", ";", " ", "t", "e", "x", "t", "-", "a", "l", "i", "g", "n", ":", " ", "c", "e", "n", "t", "e", "r", ";", "\"", ">">>
                           \o <<"<", "p", " ", "s", "t", "y", "l", "e", "=", "\"", "m", "a", "r", "g", "i", "n", ":", " ", "0", ";", " ", "f", "o", "n", "t", "-", "f", "a", "m", "i", "l", "y", ":", " ">> \o FONT
                           \o <<";", " ", "f", "o", "n", "t", "-", "s", "i", "z", "e", ":", " ", "1", "5", "p", "x", ";", " ", "l", "i", "n", "e", "-", "h", "e", "i", "g", "h", "t", ":", " ", "2", "4", "p", "x", ";", " ", "c", "o", "l", "o", "r", ":", " ", "#", "4", "4", "4", "4", "4", "4", ";", " ", "t", "e", "x", "t", "-", "a", "l", "i", "g", "n", ":", " ", "c", "e", "n", "t", "e", "r", ";", "\"", ">">>
                           \o game_content \o <<"<", "/", "p", ">">>
                           \o <<"<", "/", "t", "d", ">", "<", "/", "t", "r", ">">>
                    ELSE <<>>)
              \o <<"<", "t", "r", ">", "<", "t", "d", " ", "a", "l", "i", "g", "n", "=", "\"", "c", "e", "n", "t", "e", "r", "\"", " ", "s", "t", "y", "l", "e", "=", "\"", "t", "e", "x", "t", "-", "a", "l", "i", "g", "n", ":", " ", "c", "e", "n", "t", "e", "r", ";", "\"", ">">>
              \o <<"<", "p", " ", "s", "t", "y", "l", "e", "=", "\"", "m", "a", "r", "g", "i", "n", ":", " ", "0", ";", " ", "f", "o", "n", "t", "-", "f", "a", "m", "i", "l", "y", ":", " ">> \o FONT
              \o <<";", " ", "f", "o", "n", "t", "-", "s", "i", "z", "e", ":", " ", "1", "5", "p", "x", ";", " ", "f", "o", "n", "t", "-", "w", "e", "i", "g", "h", "t", ":", " ", "7", "0", "0", ";", " ", "c", "o", "l", "o", "r", ":", " ", "#", "0", "1", "8", "1", "8", "1", ";", " ", "t", "e", "x", "t", "-", "a", "l", "i", "g", "n", ":", " ", "c", "e", "n", "t", "e", "r", ";", "\"", ">">>
              \o <<"E", "m", "a", "i", "l", " ", "D", "o", "v", "e", " ", "y", "o", "u", "r", " ", "a", "n", "s", "w", "e", "r", " ", "&", "m", "d", "a", "s", "h", ";", " ", "t", "h", "e", " ", "w", "i", "n", "n", "e", "r", " ", "g", "e", "t", "s", " ", "1", "0", "0", " ", "B", "r", "i", "t", "e", "C", "o", " ", "B", "u", "c", "k", "s", "!", "<", "/", "p", ">">>
              \o <<"<", "/", "t", "d", ">", "<", "/", "t", "r", ">">>
              \o (IF game_previous_answer # <<>>
                    THEN <<"<", "t", "r", ">", "<", "t", "d", " ", "a", "l", "i", "g", "n", "=", "\"", "c", "e", "n", "t", "e", "r", "\"", " ", "s", "t", "y", "l", "e", "=", "\"", "p", "a", "d", "d", "i", "n", "g", "-", "t", "o", "p", ":", " ", "1", "0", "p", "x", ";", " ", "t", "e", "x", "t", "-", "a", "l", "i", "g", "n", ":", " ", "c", "e", "n", "t", "e", "r", ";", "\"", ">">>
                           \o <<"<", "t", "a", "b", "l", "e", " ", "r", "o", "l", "e", "=", "\"", "p", "r", "e", "s", "e", "n", "t", "a", "t", "i", "o", "n", "\"", " ", "c", "e", "l", "l", "s", "p", "a", "c", "i", "n", "g", "=", "\"", "0", "\"", " ", "c", "e", "l", "l", "p", "a", "d", "d", "i", "n", "g", "=", "\"", "0", "\"", " ", "b", "o", "r", "d", "e", "r", "=", "\"", "0", "\"", " ", "s", "t", "y", "l", "e", "=", "\"", "m", "a", "r", "g", "i", "n", ":", " ", "0", " ", "a", "u", "t", "o", ";", "\"", ">">>
                           \o <<"<", "t", "r", ">", "<", "t", "d", " ", "s", "t", "y", "l", "e", "=", "\"", "p", "a", "d", "d", "i", "n", "g", ":", " ", "1", "0", "p", "x", " ", "1", "4", "p", "x", ";", " ", "b", "a", "c", "k", "g", "r", "o", "u", "n", "d", "-", "c", "o", "l", "o", "r", ":", " ", "#", "f", "0", "f", "d", "f", "4", ";", " ", "b", "o", "r", "d", "e", "r", "-", "r", "a", "d", "i", "u", "s", ":", " ", "8", "p", "x", ";", " ", "b", "o", "r", "d", "e", "r", ":", " ", "1", "p", "x", " ", "s", "o", "l", "i", "d", " ", "#", "8", "6", "e", "f", "a", "c", ";", " ", "t", "e", "x", "t", "-", "a", "l", "i", "g", "n", ":", " ", "c", "e", "n", "t", "e", "r", ";", "\"", ">">>
                           \o <<"<", "p", " ", "s", "t", "y", "l", "e", "=", "\"", "m", "a", "r", "g", "i", "n", ":", " ", "0", " ", "0", " ", "2", "p", "x", " ", "0", ";", " ", "f", "o", "n", "t", "-", "f", "a", "m", "i", "l", "y", ":", " ">> \o FONT
                           \o <<";", " ", "f", "o", "n", "t", "-", "s", "i", "z", "e", ":", " ", "1", "2", "p", "x", ";", " ", "f", "o", "n", "t", "-", "w", "e", "i", "g", "h", "t", ":", " ", "7", "0", "0", ";", " ", "t", "e", "x", "t", "-", "t", "r", "a", "n", "s", "f", "o", "r", "m", ":", " ", "u", "p", "p", "e", "r", "c", "a", "s", "e", ";", " ", "c", "o", "l", "o", "r", ":", " ", "#", "0", "5", "9", "6", "6", "9", ";", " ", "l", "e", "t", "t", "e", "r", "-", "s", "p", "a", "c", "i", "n", "g", ":", " ", "1", "p", "x", ";", "\"", ">", "L", "a", "s", "t", " ", "M", "o", "n", "t", "h", "'", "s", " ", "A", "n", "s", "w", "e", "r", "<", "/", "p", ">">>
                           \o <<"<", "p", " ", "s", "t", "y", "l", "e", "=", "\"", "m", "a", "r", "g", "i", "n", ":", " ", "0", ";", " ", "f", "o", "n", "t", "-", "f", "a", "m", "i", "l", "y", ":", " ">> \o FONT
                           \o <<";", " ", "f", "o", "n", "t", "-", "s", "i", "z", "e", ":", " ", "1", "5", "p", "x", ";", " ", "c", "o", "l", "o", "r", ":", " ", "#", "2", "7", "2", "D", "3", "F", ";", "\"", ">">>
                           \o game_previous_answer \o <<"<", "/", "p", ">">>
                           \o <<"<", "/", "t", "d", ">", "<", "/", "t", "r", ">", "<", "/", "t", "a", "b", "l", "e", ">">>
                           \o <<"<", "/", "t", "d", ">", "<", "/", "t", "r", ">">>
                    ELSE <<>>)
              \o <<"<", "/", "t", "a", "b", "l", "e", ">">>
       ELSE <<>>

\* the joke before and after its first '|'
joke_setup(joke) ==
  IF find(joke, <<"|">>) # 0 THEN esc(strip(split_once(joke, <<"|">>)[1]))
  ELSE esc(joke)

joke_punchline(joke) ==
  IF find(joke, <<"|">>) # 0 THEN esc(strip(split_once(joke, <<"|">>)[2]))
  ELSE <<>>

\* a display value that always shows the section
display_always(shown) == <<"t", "a", "b", "l", "e", "-", "r", "o", "w">>

\* a display value: the section is shown or collapsed
display(shown) == IF shown THEN <<"t", "a", "b", "l", "e", "-", "r", "o", "w">> ELSE <<"n", "o", "n", "e">>


\* preheader: the first 100 characters of the setup, else month and year
preheader(month, year, setup) ==
  IF setup # <<>> THEN SubSeq(setup, 1, IF Len(setup) < 100 THEN Len(setup) ELSE 100)
  ELSE <<"T", "h", "e", " ", "B", "r", "i", "t", "e", "S", "i", "d", "e", " ", "-", " ">> \o month \o <<" ">> \o str(year)
----------------------------------------------------------------------------
(* render_email: the substitution *)

LOGO_PATH == <<"/", "s", "t", "a", "t", "i", "c", "/", "b", "r", "i", "t", "e", "c", "o", "-", "l", "o", "g", "o", "-", "w", "h", "i", "t", "e", ".", "p", "n", "g">>

\* the template file that is read
template_file(data) ==
  LET allowed_templates ==
        {<<"b", "r", "i", "t", "e", "s", "i", "d", "e", "-", "e", "m", "a", "i", "l", ".", "h", "t", "m", "l">>, <<"b", "r", "i", "t", "e", "s", "i", "d", "e", "-", "e", "m", "a", "i", "l", "-", "p", "l", "a", "y", "f", "u", "l", ".", "h", "t", "m", "l">>,
         <<"b", "r", "i", "t", "e", "s", "i", "d", "e", "-", "e", "m", "a", "i", "l", "-", "t", "e", "a", "l", ".", "h", "t", "m", "l">>}
      asked == dict_get(data, "template", <<"b", "r", "i", "t", "e", "s", "i", "d", "e", "-", "e", "m", "a", "i", "l", ".", "h", "t", "m", "l">>)
  IN IF asked \in allowed_templates THEN asked ELSE <<"b", "r", "i", "t", "e", "s", "i", "d", "e", "-", "e", "m", "a", "i", "l", ".", "h", "t", "m", "l">>

\* The placeholders and their values, in the order of the replace calls.
\* now is the wall clock that supplies a missing month or year.
replacements(data, now) ==
  LET month == dict_get(data, "month", now.month)
      year == dict_get(data, "year", now.year)
      joke == dict_get(data, "joke", <<>>)
      birthdays == dict_get(data, "birthdays", <<>>)
      spotlight == dict_get(data, "spotlight", <<>>)
      spotlights == dict_get(data, "spotlights", <<>>)
      updates_enabled == dict_get(data, "updates_enabled", TRUE)
      updates == shown_updates(dict_get(data, "updates", <<>>), updates_enabled)
      special_section == dict_get(data, "special_section", <<>>)
      welcome_hires == dict_get(data, "welcome_hires", <<>>)
      welcome_enabled == dict_get(data, "welcome_enabled", FALSE)
      game == dict_get(data, "game", <<>>)
      section_html == game_section_html(game)
      special_title == esc(dict_get(special_section, "title", <<>>))
      special_body == esc(dict_get(special_section, "body", <<>>))
  IN << <<<<"{", "{", "M", "O", "N", "T", "H", "}", "}">>, month>>,
        <<<<"{", "{", "Y", "E", "A", "R", "}", "}">>, str(year)>>,
        <<<<"{", "{", "P", "R", "E", "H", "E", "A", "D", "E", "R", "}", "}">>, preheader(month, year, joke_setup(joke))>>,
        <<<<"{", "{", "I", "N", "T", "R", "O", "_", "L", "I", "N", "E", "}", "}">>, <<>> >>,
        <<<<"{", "{", "I", "N", "T", "R", "O", "_", "D", "I", "S", "P", "L", "A", "Y", "}", "}">>, <<"n", "o", "n", "e">>>>,
        <<<<"{", "{", "J", "O", "K", "E", "}", "}">>, joke>>,
        <<<<"{", "{", "J", "O", "K", "E", "_", "S", "E", "T", "U", "P", "}", "}">>, joke_setup(joke)>>,
        <<<<"{", "{", "J", "O", "K", "E", "_", "P", "U", "N", "C", "H", "L", "I", "N", "E", "}", "}">>, joke_punchline(joke)>>,
        <<<<"{", "{", "P", "U", "N", "C", "H", "L", "I", "N", "E", "_", "D", "I", "S", "P", "L", "A", "Y", "}", "}">>, display(joke_punchline(joke) # <<>>)>>,
        <<<<"{", "{", "B", "I", "R", "T", "H", "D", "A", "Y", "_", "D", "I", "S", "P", "L", "A", "Y", "}", "}">>, display(birthdays # <<>>)>>,
        <<<<"{", "{", "B", "I", "R", "T", "H", "D", "A", "Y", "_", "S", "E", "C", "T", "I", "O", "N", "}", "}">>, birthday_html(birthdays, month)>>,
        <<<<"{", "{", "W", "E", "L", "C", "O", "M", "E", "_", "D", "I", "S", "P", "L", "A", "Y", "}", "}">>, display(welcome_enabled /\ welcome_hires # <<>>)>>,
        <<<<"{", "{", "W", "E", "L", "C", "O", "M", "E", "_", "S", "E", "C", "T", "I", "O", "N", "}", "}">>, welcome_html(welcome_enabled, welcome_hires)>>,
        <<<<"{", "{", "S", "P", "O", "T", "L", "I", "G", "H", "T", "_", "S", "E", "C", "T", "I", "O", "N", "}", "}">>, spotlight_section_html(spotlight, spotlights)>>,
        <<<<"{", "{", "S", "P", "O", "T", "L", "I", "G", "H", "T", "_", "I", "M", "A", "G", "E", "}", "}">>, spotlight_image_html(spotlight)>>,
        <<<<"{", "{", "S", "P", "O", "T", "L", "I", "G", "H", "T", "_", "N", "A", "M", "E", "}", "}">>, dict_get(spotlight, "name", <<>>)>>,
        <<<<"{", "{", "S", "P", "O", "T", "L", "I", "G", "H", "T", "_", "T", "I", "T", "L", "E", "}", "}">>, dict_get(spotlight, "title", <<>>)>>,
        <<<<"{", "{", "S", "P", "O", "T", "L", "I", "G", "H", "T", "_", "B", "L", "U", "R", "B", "}", "}">>, dict_get(spotlight, "blurb", <<>>)>>,
        <<<<"{", "{", "U", "P", "D", "A", "T", "E", "S", "_", "D", "I", "S", "P", "L", "A", "Y", "}", "}">>, display(updates_enabled /\ updates # <<>>)>>,
        <<<<"{", "{", "U", "P", "D", "A", "T", "E", "_", "1", "_", "T", "I", "T", "L", "E", "}", "}">>, update_text(updates, 1, "title")>>,
        <<<<"{", "{", "U", "P", "D", "A", "T", "E", "_", "1", "_", "B", "O", "D", "Y", "}", "}">>, update_text(updates, 1, "body")>>,
        <<<<"{", "{", "U", "P", "D", "A", "T", "E", "_", "1", "_", "P", "H", "O", "T", "O", "S", "}", "}">>, update_photos_html(updates, 1)>>,
        <<<<"{", "{", "U", "P", "D", "A", "T", "E", "_", "2", "_", "T", "I", "T", "L", "E", "}", "}">>, update_text(updates, 2, "title")>>,
        <<<<"{", "{", "U", "P", "D", "A", "T", "E", "_", "2", "_", "B", "O", "D", "Y", "}", "}">>, update_text(updates, 2, "body")>>,
        <<<<"{", "{", "U", "P", "D", "A", "T", "E", "_", "2", "_", "P", "H", "O", "T", "O", "S", "}", "}">>, update_photos_html(updates, 2)>>,
        <<<<"{", "{", "U", "P", "D", "A", "T", "E", "_", "2", "_", "D", "I", "S", "P", "L", "A", "Y", "}", "}">>,
          display(update_text(updates, 2, "title") # <<>> \/ update_text(updates, 2, "body") # <<>>)>>,
        <<<<"{", "{", "U", "P", "D", "A", "T", "E", "_", "3", "_", "T", "I", "T", "L", "E", "}", "}">>, update_text(updates, 3, "title")>>,
        <<<<"{", "{", "U", "P", "D", "A", "T", "E", "_", "3", "_", "B", "O", "D", "Y", "}", "}">>, update_text(updates, 3, "body")>>,
        <<<<"{", "{", "U", "P", "D", "A", "T", "E", "_", "3", "_", "P", "H", "O", "T", "O", "S", "}", "}">>, update_photos_html(updates, 3)>>,
        <<<<"{", "{", "U", "P", "D", "A", "T", "E", "_", "3", "_", "D", "I", "S", "P", "L", "A", "Y", "}", "}">>,
          display(update_text(updates, 3, "title") # <<>> \/ update_text(updates, 3, "body") # <<>>)>>,
        <<<<"{", "{", "S", "P", "E", "C", "I", "A", "L", "_", "T", "I", "T", "L", "E", "}", "}">>, special_title>>,
        <<<<"{", "{", "S", "P", "E", "C", "I", "A", "L", "_", "B", "O", "D", "Y", "}", "}">>, special_body>>,
        <<<<"{", "{", "S", "P", "E", "C", "I", "A", "L", "_", "S", "E", "C", "T", "I", "O", "N", "_", "D", "I", "S", "P", "L", "A", "Y", "}", "}">>,
          display(special_title # <<>> \/ special_body # <<>>)>>,
        <<<<"{", "{", "G", "A", "M", "E", "_", "D", "I", "S", "P", "L", "A", "Y", "}", "}">>, display(section_html # <<>>)>>,
        <<<<"{", "{", "G", "A", "M", "E", "_", "S", "E", "C", "T", "I", "O", "N", "}", "}">>, section_html>> >>

\* html.replace(token, value) for each pair of subs, in the order of subs
RECURSIVE substitute(_, _)
substitute(html, subs) ==
  IF subs = <<>> THEN html
  ELSE LET replaced == replace(html, subs[1][1], subs[1][2])
       IN IF Len(replaced) >= 0 THEN substitute(replaced, Tail(subs))
          ELSE replaced

\* the document with the logo path made absolute
absolute_logo(html, host_url) ==
  replace(html, LOGO_PATH, rstrip_slash(host_url) \o LOGO_PATH)

\* render_email: the response; file is what the template path holds
render_email(data, file, now, host_url) ==
  LET subs == replacements(data, now)
  IN IF ~file.exists
       THEN [status |-> 404, success |-> FALSE, html |-> <<>>, subs |-> <<>>]
       ELSE [status |-> 200, success |-> TRUE,
             html |-> substitute(absolute_logo(file.text, host_url), subs),
             subs |-> subs]

----------------------------------------------------------------------------
(* render_email: requests *)

\* every placeholder of the vocabulary, in the order of the replace calls
Tokens ==
  << <<"{", "{", "M", "O", "N", "T", "H", "}", "}">>, <<"{", "{", "Y", "E", "A", "R", "}", "}">>, <<"{", "{", "P", "R", "E", "H", "E", "A", "D", "E", "R", "}", "}">>, <<"{", "{", "I", "N", "T", "R", "O", "_", "L", "I", "N", "E", "}", "}">>,
     <<"{", "{", "I", "N", "T", "R", "O", "_", "D", "I", "S", "P", "L", "A", "Y", "}", "}">>, <<"{", "{", "J", "O", "K", "E", "}", "}">>, <<"{", "{", "J", "O", "K", "E", "_", "S", "E", "T", "U", "P", "}", "}">>, <<"{", "{", "J", "O", "K", "E", "_", "P", "U", "N", "C", "H", "L", "I", "N", "E", "}", "}">>,
     <<"{", "{", "P", "U", "N", "C", "H", "L", "I", "N", "E", "_", "D", "I", "S", "P", "L", "A", "Y", "}", "}">>, <<"{", "{", "B", "I", "R", "T", "H", "D", "A", "Y", "_", "D", "I", "S", "P", "L", "A", "Y", "}", "}">>, <<"{", "{", "B", "I", "R", "T", "H", "D", "A", "Y", "_", "S", "E", "C", "T", "I", "O", "N", "}", "}">>,
     <<"{", "{", "W", "E", "L", "C", "O", "M", "E", "_", "D", "I", "S", "P", "L", "A", "Y", "}", "}">>, <<"{", "{", "W", "E", "L", "C", "O", "M", "E", "_", "S", "E", "C", "T", "I", "O", "N", "}", "}">>, <<"{", "{", "S", "P", "O", "T", "L", "I", "G", "H", "T", "_", "S", "E", "C", "T", "I", "O", "N", "}", "}">>,
     <<"{", "{", "S", "P", "O", "T", "L", "I", "G", "H", "T", "_", "I", "M", "A", "G", "E", "}", "}">>, <<"{", "{", "S", "P", "O", "T", "L", "I", "G", "H", "T", "_", "N", "A", "M", "E", "}", "}">>, <<"{", "{", "S", "P", "O", "T", "L", "I", "G", "H", "T", "_", "T", "I", "T", "L", "E", "}", "}">>,
     <<"{", "{", "S", "P", "O", "T", "L", "I", "G", "H", "T", "_", "B", "L", "U", "R", "B", "}", "}">>, <<"{", "{", "U", "P", "D", "A", "T", "E", "S", "_", "D", "I", "S", "P", "L", "A", "Y", "}", "}">>, <<"{", "{", "U", "P", "D", "A", "T", "E", "_", "1", "_", "T", "I", "T", "L", "E", "}", "}">>,
     <<"{", "{", "U", "P", "D", "A", "T", "E", "_", "1", "_", "B", "O", "D", "Y", "}", "}">>, <<"{", "{", "U", "P", "D", "A", "T", "E", "_", "1", "_", "P", "H", "O", "T", "O", "S", "}", "}">>, <<"{", "{", "U", "P", "D", "A", "T", "E", "_", "2", "_", "T", "I", "T", "L", "E", "}", "}">>,
     <<"{", "{", "U", "P", "D", "A", "T", "E", "_", "2", "_", "B", "O", "D", "Y", "}", "}">>, <<"{", "{", "U", "P", "D", "A", "T", "E", "_", "2", "_", "P", "H", "O", "T", "O", "S", "}", "}">>, <<"{", "{", "U", "P", "D", "A", "T", "E", "_", "2", "_", "D", "I", "S", "P", "L", "A", "Y", "}", "}">>,
     <<"{", "{", "U", "P", "D", "A", "T", "E", "_", "3", "_", "T", "I", "T", "L", "E", "}", "}">>, <<"{", "{", "U", "P", "D", "A", "T", "E", "_", "3", "_", "B", "O", "D", "Y", "}", "}">>, <<"{", "{", "U", "P", "D", "A", "T", "E", "_", "3", "_", "P", "H", "O", "T", "O", "S", "}", "}">>,
     <<"{", "{", "U", "P", "D", "A", "T", "E", "_", "3", "_", "D", "I", "S", "P", "L", "A", "Y", "}", "}">>, <<"{", "{", "S", "P", "E", "C", "I", "A", "L", "_", "T", "I", "T", "L", "E", "}", "}">>, <<"{", "{", "S", "P", "E", "C", "I", "A", "L", "_", "B", "O", "D", "Y", "}", "}">>,
     <<"{", "{", "S", "P", "E", "C", "I", "A", "L", "_", "S", "E", "C", "T", "I", "O", "N", "_", "D", "I", "S", "P", "L", "A", "Y", "}", "}">>, <<"{", "{", "G", "A", "M", "E", "_", "D", "I", "S", "P", "L", "A", "Y", "}", "}">>, <<"{", "{", "G", "A", "M", "E", "_", "S", "E", "C", "T", "I", "O", "N", "}", "}">> >>

\* a document over the vocabulary: the logo, then each chosen placeholder in
\* an element of its own
document(tokens) ==
  <<"<", "i", "m", "g", " ", "s", "r", "c", "=", "\"">> \o LOGO_PATH \o <<"\"", ">">>
    \o join([i \in 1..Len(tokens) |-> <<"<", "p", ">">> \o tokens[i] \o <<"<", "/", "p", ">">>], <<>>)

\* The template files are not part of the sources; what the template path
\* holds is an input: no file, or a document over the vocabulary (the
\* placeholders of one part of the newsletter, or all of them).
TemplateFiles ==
  {[exists |-> FALSE]}
    \cup {[exists |-> TRUE, text |-> document(SubSeq(Tokens, r[1], r[2]))] :
            r \in {<<1, 9>>, <<10, 18>>, <<19, 30>>, <<31, 35>>, <<1, 35>>}}

\* the lists of length 0..n over a pool of entries
RECURSIVE lists_upto(_, _)
lists_upto(pool, n) ==
  IF n = 0 THEN {<<>>}
  ELSE LET shorter == lists_upto(pool, n - 1)
       IN shorter \cup {Append(l, e) : l \in shorter, e \in pool}

\* the photo URLs of an update with n photos
photo_urls(n) == [i \in 1..n |-> <<"h", "t", "t", "p", "s", ":", "/", "/", "c", "d", "n", "/", "p">> \o str(i)]

\* The payloads: one family for each part of the newsletter. Texts carry
\* markup, quotes and ampersands, and two of them the text of a placeholder.
RenderBodies ==
  LET news == [title |-> <<"N", "e", "w", "s">>, body |-> <<"a", " ", "<", " ", "b">>]
      JokeBodies ==
        {[joke |-> j] :
           j \in {<<"W", "h", "y", "?", " ", "|", " ", "B", "e", "c", "a", "u", "s", "e">>, <<"a", "|", "b", "|", "c">>, <<"K", "n", "o", "c", "k", " ", "k", "n", "o", "c", "k">>, <<"W", "h", "y", "?", "|">>,
                  <<"<", "b", ">", "T", "o", "m", "'", "s", "<", "/", "b", ">", " ", "|", " ", "\"", "R", "&", "D", "\"">>, <<"{", "{", "Y", "E", "A", "R", "}", "}">>}}
      BirthdayBodies ==
        {[month |-> <<"A", "u", "g", "u", "s", "t">>, year |-> 2026, birthdays |-> l] :
           l \in lists_upto({[name |-> <<"Z", "o", "e", " ", "\"", "Z", "\"", " ", "O", "'", "H", "a", "r", "a">>, birthday_day |-> 17,
                              department |-> <<"R", "&", "D">>],
                             [name |-> <<"<", "b", ">", "B", "o", "<", "/", "b", ">">>, birthday_day |-> 5,
                              department |-> <<>>]}, MaxEntries)}
      WelcomeBodies ==
        {[welcome_hires |-> l] : l \in {<<>>, <<[name |-> <<"I", "d", "a">>, role |-> <<"I", "n", "t", "e", "r", "n">>]>>}}
          \cup {[welcome_enabled |-> on, welcome_hires |-> l] :
                  on \in BOOLEAN,
                  l \in lists_upto({[name |-> <<"I", "d", "a">>, role |-> <<"I", "n", "t", "e", "r", "n">>,
                                     fun_fact |-> <<"<", "i", ">", "s", "k", "i", "s", "<", "/", "i", ">">>]}, MaxEntries)}
      SpotlightBodies ==
        LET one == [name |-> <<"C", "y", " ", "&", " ", "C", "o">>, title |-> <<"C", "I", "O">>, blurb |-> <<"<", "s", "c", "r", "i", "p", "t", ">">>]
            two == [name |-> <<"D", "i">>, title |-> <<"<", "C", "F", "O", ">">>, fun_facts |-> <<"1", " ", "<", " ", "2">>,
                    image_url |-> <<"h", "t", "t", "p", "s", ":", "/", "/", "c", "d", "n", "/", "d", "i", ".", "p", "n", "g">>,
                    qa |-> <<[q |-> <<"T", "e", "a", "?">>, a |-> <<"Y", "e", "s", " ", "&", " ", "n", "o">>], [q |-> <<"W", "h", "y">>]>>]
        IN {[spotlight |-> one], [spotlight |-> two], [spotlight |-> [title |-> <<"C", "I", "O">>]]}
             \cup {[spotlights |-> l] : l \in lists_upto({one, two}, MaxEntries) \ {<<>>}}
      UpdatePhotoBodies ==
        {[updates |-> SubSeq(<<news, news>>, 1, k - 1)
                        \o <<[title |-> <<"T", "r", "i", "p">>, body |-> <<>>, photos |-> photo_urls(n)]>>] :
           k \in 1..3, n \in 0..MaxPhotos}
          \cup {[updates |-> <<[title |-> <<"T", "r", "i", "p">>,
                               photos |-> <<<<"h", "t", "t", "p", "s", ":", "/", "/", "c", "d", "n", "/", "p", "1">>, <<>>, <<"h", "t", "t", "p", "s", ":", "/", "/", "c", "d", "n", "/", "p", "2">>, <<>>, <<"h", "t", "t", "p", "s", ":", "/", "/", "c", "d", "n", "/", "p", "3">>>>]>>]}
      UpdateShownBodies ==
        LET photo_only == [title |-> <<>>, body |-> <<>>, photos |-> photo_urls(1)]
            body_only == [body |-> <<"{", "{", "G", "A", "M", "E", "_", "D", "I", "S", "P", "L", "A", "Y", "}", "}">>]
            empty == [title |-> <<>>, body |-> <<>>]
        IN {[updates_enabled |-> on, updates |-> l] :
              on \in BOOLEAN,
              l \in {<<>>, <<news>>, <<news, photo_only>>, <<news, news, body_only>>,
                     <<empty, empty, photo_only>>, <<news, news, news, news>>}}
      SpecialBodies ==
        {[special_section |-> s] :
           s \in {<<>>, [title |-> <<>>, body |-> <<>>], [title |-> <<"G", "a", "l", "a">>],
                  [title |-> <<>>, body |-> <<"<", "u", ">", "7", " ", "p", "m", "<", "/", "u", ">">>]}}
      GameBodies ==
        {[game |-> g] :
           g \in {<<>>, [content |-> <<"<", "b", ">", "R", "i", "d", "d", "l", "e", "<", "/", "b", ">">>],
                  [image_url |-> <<"h", "t", "t", "p", "s", ":", "/", "/", "c", "d", "n", "/", "g", ".", "p", "n", "g">>],
                  [previous_answer |-> <<"4", "2">>],
                  [content |-> <<"R", "i", "d", "d", "l", "e">>, previous_answer |-> <<"<", "i", ">", "4", "2", "<", "/", "i", ">">>]}}
      TemplateBodies ==
        {<<>>, [template |-> <<"b", "r", "i", "t", "e", "s", "i", "d", "e", "-", "e", "m", "a", "i", "l", "-", "t", "e", "a", "l", ".", "h", "t", "m", "l">>, month |-> <<"M", "a", "y">>],
         [template |-> <<".", ".", "/", "a", "p", "p", ".", "p", "y">>, year |-> 2027]}
  IN JokeBodies \cup BirthdayBodies \cup WelcomeBodies \cup SpotlightBodies
       \cup UpdatePhotoBodies \cup UpdateShownBodies \cup SpecialBodies
       \cup GameBodies \cup TemplateBodies

\* a request: the payload, what the template path holds, the wall clock
\* (it supplies a missing month or year) and the host the request names
RenderRequests ==
  [data : RenderBodies, file : TemplateFiles,
   now : {[month |-> <<"N", "o", "v", "e", "m", "b", "e", "r">>, year |-> 2026]},
   host_url : {<<"h", "t", "t", "p", ":", "/", "/", "l", "o", "c", "a", "l", "h", "o", "s", "t", ":", "8", "0", "8", "0", "/">>}]

----------------------------------------------------------------------------
(* The renderer as a state machine *)

\* a render_email request has arrived
InitRender ==
  /\ EMPLOYEES = CONFIG_EMPLOYEES
  /\ gcs_client = FALSE
  /\ bucket = EmptyBucket
  /\ \E request \in RenderRequests :
       last = [op |-> "request", data |-> request.data, file |-> request.file,
               now |-> request.now, host_url |-> request.host_url]
  /\ steps = 0
  /\ mail = NoMail
  /\ requests = NoRequests

\* the request is handled
RenderEmail ==
  /\ last.op = "request"
  /\ LET r == render_email(last.data, last.file, last.now, last.host_url)
     IN last' = [op |-> "render_email", data |-> last.data,
                 template_file |-> template_file(last.data),
                 file |-> last.file, now |-> last.now,
                 host_url |-> last.host_url, status |-> r.status,
                 success |-> r.success, html |-> r.html, subs |-> r.subs]
  /\ UNCHANGED <<EMPLOYEES, gcs_client, bucket, steps, mail, requests>>

NextRender == RenderEmail

SpecRender == InitRender /\ [][NextRender]_vars
----------------------------------------------------------------------------
(* get_birthdays *)

MONTH_NAMES ==
  <<<<"J", "a", "n", "u", "a", "r", "y">>, <<"F", "e", "b", "r", "u", "a", "r", "y">>, <<"M", "a", "r", "c", "h">>, <<"A", "p", "r", "i", "l">>, <<"M", "a", "y">>, <<"J", "u", "n", "e">>, <<"J", "u", "l", "y">>,
    <<"A", "u", "g", "u", "s", "t">>, <<"S", "e", "p", "t", "e", "m", "b", "e", "r">>, <<"O", "c", "t", "o", "b", "e", "r">>, <<"N", "o", "v", "e", "m", "b", "e", "r">>, <<"D", "e", "c", "e", "m", "b", "e", "r">>>>

\* the number a string of decimal digits denotes
RECURSIVE digits_value(_)
digits_value(s) ==
  IF s = <<>> THEN 0
  ELSE 10 * digits_value(SubSeq(s, 1, Len(s) - 1)) + (Ord[s[Len(s)]] - 48)

\* request.args.get(key, type=int): int() of the parameter (blanks around
\* it and a sign are accepted), None when it is missing or int() raises
args_get_int(args, key) ==
  LET t == strip(dict_get(args, key, <<>>))
      signed == t # <<>> /\ t[1] \in {"+", "-"}
      digits == IF signed THEN Tail(t) ELSE t
      numeric == digits # <<>> /\ \A i \in 1..Len(digits) : Ord[digits[i]] \in 48..57
  IN IF ~numeric THEN [none |-> TRUE, value |-> 0]
     ELSE [none |-> FALSE,
           value |-> IF signed /\ t[1] = "-" THEN 0 - digits_value(digits)
                     ELSE digits_value(digits)]

\* a key that orders nothing
day_key_none(e) == 0

\* what list.sort(key=lambda x: x["birthday_day"]) compares
day_key(e) == e.birthday_day

\* insert e into a list sorted by day behind every entry whose day is not greater
RECURSIVE insert_by_day(_, _)
insert_by_day(sorted, e) ==
  IF sorted = <<>> THEN <<e>>
  ELSE IF day_key(e) < day_key(Head(sorted)) THEN <<e>> \o sorted
  ELSE <<Head(sorted)>> \o insert_by_day(Tail(sorted), e)

\* birthday_employees.sort(key=lambda x: x["birthday_day"]): a stable sort
RECURSIVE sort_by_day(_)
sort_by_day(l) ==
  IF l = <<>> THEN <<>>
  ELSE insert_by_day(sort_by_day(SubSeq(l, 1, Len(l) - 1)), l[Len(l)])

\* get_birthdays: the response
get_birthdays(args, employees) ==
  LET month == args_get_int(args, "month")
  IN IF month.none \/ month.value = 0 \/ month.value < 1 \/ month.value > 12
       THEN [status |-> 400, success |-> FALSE, month |-> 0,
             month_name |-> <<>>, birthdays |-> <<>>]
       ELSE [status |-> 200, success |-> TRUE, month |-> month.value,
             month_name |-> MONTH_NAMES[month.value],
             birthdays |->
               sort_by_day(SelectSeq(employees,
                             LAMBDA emp : emp.birthday_month = month.value))]

\* Five more entries of the configured list, in their order (lines 14, 30,
\* 31, 45 and 49): three birthdays in April whose days are not in the order
\* of the names, one in September and one entry without a birthday.
BIRTHDAY_EMPLOYEES ==
  << [name |-> <<"A", "l", "e", "x", "i", "a", " ", "T", "r", "e", "j", "o">>, email |-> <<"a", "l", "e", "x", "i", "a", ".", "t", "r", "e", "j", "o", "@", "b", "r", "i", "t", "e", ".", "c", "o">>,
      birthday_month |-> 4, birthday_day |-> 10, department |-> <<>>,
      title |-> <<"U", "n", "d", "e", "r", "w", "r", "i", "t", "i", "n", "g", " ", "A", "s", "s", "i", "s", "t", "a", "n", "t">>],
     [name |-> <<"D", "u", "s", "t", "i", "n", " ", "S", "i", "t", "a", "r">>, email |-> <<"d", "u", "s", "t", "i", "n", ".", "s", "i", "t", "a", "r", "@", "b", "r", "i", "t", "e", ".", "c", "o">>,
      birthday_month |-> 4, birthday_day |-> 23, department |-> <<>>,
      title |-> <<"H", "e", "a", "d", " ", "o", "f", " ", "G", "r", "o", "w", "t", "h", " ", "&", " ", "M", "a", "r", "k", "e", "t", "i", "n", "g">>],
     [name |-> <<"D", "y", "l", "a", "n", "n", "e", " ", "C", "r", "u", "g", "n", "a", "l", "e">>, email |-> <<"d", "y", "l", "a", "n", "n", "e", ".", "c", "r", "u", "g", "n", "a", "l", "e", "@", "b", "r", "i", "t", "e", ".", "c", "o">>,
      birthday_month |-> 4, birthday_day |-> 5, department |-> <<>>,
      title |-> <<"D", "i", "r", "e", "c", "t", "o", "r", " ", "o", "f", " ", "S", "t", "r", "a", "t", "e", "g", "i", "c", " ", "M", "a", "r", "k", "e", "t", "i", "n", "g">>],
     [name |-> <<"M", "a", "d", "i", "s", "y", "n", " ", "K", "a", "f", "e", "r">>, email |-> <<"m", "a", "d", "i", "s", "y", "n", ".", "k", "a", "f", "e", "r", "@", "b", "r", "i", "t", "e", ".", "c", "o">>,
      birthday_month |-> 9, birthday_day |-> 5, department |-> <<>>,
      title |-> <<"U", "n", "d", "e", "r", "w", "r", "i", "t", "i", "n", "g", " ", "A", "s", "s", "i", "s", "t", "a", "n", "t">>],
     CONFIG_EMPLOYEES[3] >>

\* the lists that keep some entries of l in their order
RECURSIVE sublists(_)
sublists(l) ==
  IF l = <<>> THEN {<<>>}
  ELSE LET shorter == sublists(Tail(l))
       IN shorter \cup {<<Head(l)>> \o t : t \in shorter}

\* the query strings: no month, the months 0..MaxMonth, and others
BirthdayArgs ==
  {<<>>} \cup {[month |-> str(m)] : m \in 0..MaxMonth}
    \cup {[month |-> s] : s \in {<<"a", "b", "c">>, <<"4", ".", "5">>, <<"-", "4">>, <<"0", "4">>, <<" ", "4", " ">>, <<>>}}

----------------------------------------------------------------------------
(* The birthday filter as a state machine *)

\* a get_birthdays request has arrived at a process whose directory holds
\* some of the entries
InitBirthdays ==
  /\ EMPLOYEES \in sublists(BIRTHDAY_EMPLOYEES)
  /\ gcs_client = FALSE
  /\ bucket = EmptyBucket
  /\ \E args \in BirthdayArgs : last = [op |-> "request", data |-> args]
  /\ steps = 0
  /\ mail = NoMail
  /\ requests = NoRequests

\* the request is handled
GetBirthdays ==
  /\ last.op = "request"
  /\ LET r == get_birthdays(last.data, EMPLOYEES)
     IN last' = [op |-> "get_birthdays", data |-> last.data,
                 status |-> r.status, success |-> r.success,
                 month |-> r.month, month_name |-> r.month_name,
                 birthdays |-> r.birthdays]
  /\ UNCHANGED <<EMPLOYEES, gcs_client, bucket, steps, mail, requests>>

NextBirthdays == GetBirthdays

SpecBirthdays == InitBirthdays /\ [][NextBirthdays]_vars
----------------------------------------------------------------------------
(* Game answers *)

\* f"games/{month}-{year}.json"
game_blob_name(month, year) ==
  <<"g", "a", "m", "e", "s", "/">> \o month \o <<"-">> \o str(year) \o JSON_SUFFIX

\* save_game_answer: the response and the bucket afterwards; now is the
\* wall clock of the request
save_game_answer(data, client, bkt, now, upload_ok) ==
  LET month == lower(dict_get(data, "month", <<>>))
      year == dict_get(data, "year", now.year)
      blob_name == game_blob_name(month, year)
      game_data == [kind |-> "game", month |-> month, year |-> year,
                    type |-> dict_get(data, "type", <<>>),
                    answer |-> dict_get(data, "answer", <<>>),
                    savedAt |-> now.isoformat]
  IN IF ~client
       THEN [status |-> 503, success |-> FALSE, file |-> <<>>, bucket |-> bkt]
     ELSE IF ~upload_ok
       THEN [status |-> 500, success |-> FALSE, file |-> <<>>, bucket |-> bkt]
     ELSE [status |-> 200, success |-> TRUE, file |-> blob_name,
           bucket |-> [bkt EXCEPT ![blob_name] = game_data]]

\* a previous month that stays in the year asked for
previous_month_same_year(month_num, year) ==
  IF month_num = 1 THEN [month |-> 12, year |-> year]
  ELSE [month |-> month_num - 1, year |-> year]

\* the month before month_num of year, as get_previous_game computes it
previous_month(month_num, year) ==
  IF month_num = 1 THEN [month |-> 12, year |-> year - 1]
  ELSE [month |-> month_num - 1, year |-> year]

\* get_previous_game: the response; a read that raises is answered like a
\* game that does not exist
get_previous_game(args, client, bkt, now, download_ok) ==
  LET month_num == args_get_int(args, "month")
      year_arg == args_get_int(args, "year")
      year == IF year_arg.none THEN now.year ELSE year_arg.value
      prev == previous_month(month_num.value, year)
      prev_month_name ==
        lower(IF prev.month \in 1..12 THEN MONTH_NAMES[prev.month] ELSE <<>>)
      blob_name == game_blob_name(prev_month_name, prev.year)
      answer(status, success, raised, game) ==
        [status |-> status, success |-> success, raised |-> raised,
         game |-> game]
  IN IF ~client THEN answer(200, TRUE, FALSE, NoBlob)
     ELSE IF month_num.none \/ month_num.value = 0
       THEN answer(400, FALSE, FALSE, NoBlob)
     ELSE IF ~blob_exists(bkt, blob_name) THEN answer(200, TRUE, FALSE, NoBlob)
     ELSE IF ~download_ok THEN answer(200, TRUE, TRUE, NoBlob)
     ELSE answer(200, TRUE, FALSE, bkt[blob_name])

----------------------------------------------------------------------------
(* Requests explored for the game answers *)

\* the years the requests name; the wall clock stands in the first of them
GameYears == {2026, 2027}

GameClock == [year |-> 2026, isoformat |-> <<"2", "0", "2", "6", "-", "1", "1", "-", "0", "2", "T", "0", "9", ":", "0", "0", ":", "0", "0", "-", "0", "6", ":", "0", "0">>]

\* the keys game answers can be stored under: every month, and the blank
\* month of a request that names none, of the years named and the year before
GameKeys ==
  {game_blob_name(month, year) :
     month \in {lower(MONTH_NAMES[i]) : i \in 1..12} \cup {<<>>},
     year \in GameYears \cup {y - 1 : y \in GameYears}}

\* bodies of save_game_answer: every month name with a year, one in capitals
\* without a year, and one that names no month
GameAnswerBodies ==
  {[month |-> MONTH_NAMES[i], year |-> y, type |-> <<"r", "i", "d", "d", "l", "e">>,
    answer |-> <<"A", "n", " ", "e", "c", "h", "o", ",", " ">> \o MONTH_NAMES[i]] :
     i \in 1..12, y \in {2025, 2026}}
    \cup {[month |-> <<"M", "A", "R", "C", "H">>, answer |-> <<"A", " ", "m", "a", "p">>], [answer |-> <<"A", " ", "m", "a", "p">>]}

\* query strings of get_previous_game
GameArgs ==
  {<<>>}
    \cup {[month |-> str(m)] : m \in 0..MaxMonth}
    \cup {[month |-> str(m), year |-> str(y)] : m \in 1..MaxMonth, y \in GameYears}

----------------------------------------------------------------------------
(* The game answers as a state machine *)

InitGames ==
  /\ EMPLOYEES = CONFIG_EMPLOYEES
  /\ gcs_client \in BOOLEAN
  /\ bucket = [k \in GameKeys |-> NoBlob]
  /\ last = [op |-> "start"]
  /\ steps = 0
  /\ mail = NoMail
  /\ requests = NoRequests

SaveGameAnswer ==
  /\ steps < MaxSteps
  /\ \E data \in GameAnswerBodies, upload_ok \in StorageOutcomes(gcs_client) :
       LET r == save_game_answer(data, gcs_client, bucket, GameClock, upload_ok)
       IN /\ bucket' = r.bucket
          /\ last' = [op |-> "save_game_answer", data |-> data,
                      status |-> r.status, success |-> r.success,
                      file |-> r.file]
  /\ steps' = steps + 1
  /\ UNCHANGED <<EMPLOYEES, gcs_client, mail, requests>>

GetPreviousGame ==
  /\ steps < MaxSteps
  /\ \E args \in GameArgs, download_ok \in StorageOutcomes(gcs_client) :
       LET r == get_previous_game(args, gcs_client, bucket, GameClock,
                                  download_ok)
       IN last' = [op |-> "get_previous_game", args |-> args,
                   status |-> r.status, success |-> r.success,
                   raised |-> r.raised, game |-> r.game]
  /\ steps' = steps + 1
  /\ UNCHANGED <<EMPLOYEES, gcs_client, bucket, mail, requests>>

NextGames == SaveGameAnswer \/ GetPreviousGame

SpecGames == InitGames /\ [][NextGames]_vars
----------------------------------------------------------------------------
(* Requests handled at the same time *)

\* The development server handles each request on a thread of its own
\* (app.run), and the handlers take no lock. A handler is a sequence of
\* steps, each one call on the shared list or on storage; steps of different
\* requests interleave freely. requests[w] is the request thread w handles:
\* where it stands (pc), its local variables (local) and, once it has
\* returned, its HTTP status.
Workers == {1, 2}

\* the requests the two threads are given: two spellings of one new email
\* to add, an employee to remove or rename, a draft to save under the key of
\* the draft that exists, and that draft to publish
RaceRequests ==
  LET add(email) ==
        [op |-> "add", pc |-> "check",
         data |-> [present |-> {"name", "email"}, email |-> email,
                   name |-> <<"A", "b", "e", " ", "L", "e", "e">>]]
      mick == CONFIG_EMPLOYEES[3].email
      draft == CHOOSE d \in SaveBodies : d.payload = "joke A" /\ d.savedBy[1] = "a"
      later == [draft EXCEPT !.payload = "joke B"]
  IN {add(NovelEmail), add(lower(NovelEmail)),
      [op |-> "remove", pc |-> "filter",
       data |-> [present |-> {"email"}, email |-> mick]],
      [op |-> "update", pc |-> "find",
       data |-> [present |-> {"email", "title"}, email |-> mick,
                 title |-> <<"L", "e", "a", "d">>]],
      [op |-> "save_draft", pc |-> "save", data |-> later],
      [op |-> "publish_draft", pc |-> "exists",
       data |-> [file |-> draft_blob_name(draft)]]}

\* thread w goes on to pc with new locals, or returns (pc = "done")
advance(w, pc, local, status) ==
  requests' = [requests EXCEPT ![w] = [@ EXCEPT !.pc = pc, !.local = local,
                                                !.status = status]]

InitRace ==
  /\ EMPLOYEES = CONFIG_EMPLOYEES
  /\ gcs_client = TRUE
  /\ bucket =
       LET draft == CHOOSE d \in SaveBodies : d.payload = "joke A" /\ d.savedBy[1] = "a"
       IN [EmptyBucket EXCEPT
             ![EMPLOYEES_GCS_KEY] =
                snapshot_blob(CONFIG_EMPLOYEES_VERSION, CONFIG_EMPLOYEES),
             ![draft_blob_name(draft)] = draft_document(draft)]
  /\ last = [op |-> "start"]
  /\ steps = 0
  /\ mail = NoMail
  /\ requests = [w \in Workers |-> [op |-> "none", pc |-> "idle", data |-> <<>>,
                                    local |-> <<>>, status |-> 0]]

\* a request arrives and is given to a thread that handles none
Call(w) ==
  /\ steps < MaxSteps
  /\ requests[w].pc \in {"idle", "done"}
  /\ \E req \in RaceRequests :
       requests' = [requests EXCEPT ![w] =
                      [op |-> req.op, pc |-> req.pc, data |-> req.data,
                       local |-> <<>>, status |-> 0]]
  /\ steps' = steps + 1
  /\ UNCHANGED <<EMPLOYEES, gcs_client, bucket, last, mail>>

\* add_employee up to the end of its duplicate check
AddCheck(w) ==
  /\ requests[w].pc = "check"
  /\ LET r == add_employee(requests[w].data, EMPLOYEES, FALSE, bucket, FALSE)
     IN IF r.status = 200 THEN advance(w, "append", <<>>, 0)
        ELSE advance(w, "done", <<>>, r.status)
  /\ UNCHANGED <<EMPLOYEES, gcs_client, bucket, last, steps, mail>>

\* add_employee: EMPLOYEES.append(new_employee); EMPLOYEES.sort(...)
AddAppend(w) ==
  /\ requests[w].pc = "append"
  /\ LET data == requests[w].data
         new_employee ==
           [name |-> strip(data.name), email |-> strip(data.email),
            birthday_month |-> get(data, "birthday_month", 0),
            birthday_day |-> get(data, "birthday_day", 0),
            department |-> get(data, "department", <<>>),
            title |-> get(data, "title", <<>>)]
     IN EMPLOYEES' = sort_by_name(Append(EMPLOYEES, new_employee))
  /\ advance(w, "dump", <<>>, 0)
  /\ UNCHANGED <<gcs_client, bucket, last, steps, mail>>

\* remove_employee: original_count and the list comprehension are computed
RemoveFilter(w) ==
  /\ requests[w].pc = "filter"
  /\ LET r == remove_employee(requests[w].data, EMPLOYEES, FALSE, bucket, FALSE)
     IN IF r.status = 400 THEN advance(w, "done", <<>>, 400)
        ELSE advance(w, "assign",
                     [original_count |-> Len(EMPLOYEES), kept |-> r.employees], 0)
  /\ UNCHANGED <<EMPLOYEES, gcs_client, bucket, last, steps, mail>>

\* remove_employee: EMPLOYEES[:] = ... and the comparison of the lengths
RemoveAssign(w) ==
  /\ requests[w].pc = "assign"
  /\ EMPLOYEES' = requests[w].local.kept
  /\ IF Len(requests[w].local.kept) = requests[w].local.original_count
       THEN advance(w, "done", <<>>, 404)
       ELSE advance(w, "dump", <<>>, 0)
  /\ UNCHANGED <<gcs_client, bucket, last, steps, mail>>

\* update_employee: the loop that finds the record and sets its fields
UpdateFind(w) ==
  /\ requests[w].pc = "find"
  /\ LET r == update_employee(requests[w].data, EMPLOYEES, FALSE, bucket, FALSE)
     IN /\ EMPLOYEES' = r.employees
        /\ IF r.status = 200 THEN advance(w, "dump", <<>>, 0)
           ELSE advance(w, "done", <<>>, r.status)
  /\ UNCHANGED <<gcs_client, bucket, last, steps, mail>>

\* save_employees_to_gcs: json.dumps of the list as it is now
Dump(w) ==
  /\ requests[w].pc = "dump"
  /\ advance(w, "upload", EMPLOYEES, 0)
  /\ UNCHANGED <<EMPLOYEES, gcs_client, bucket, last, steps, mail>>

\* save_employees_to_gcs: blob.upload_from_string of what was dumped, and
\* the handler's response
Upload(w) ==
  /\ requests[w].pc = "upload"
  /\ bucket' = save_employees_to_gcs(gcs_client, requests[w].local, bucket,
                                     TRUE).bucket
  /\ advance(w, "done", <<>>, 200)
  /\ UNCHANGED <<EMPLOYEES, gcs_client, last, steps, mail>>

\* save_draft: one upload
SaveDraftUpload(w) ==
  /\ requests[w].pc = "save"
  /\ LET r == save_draft(requests[w].data, gcs_client, bucket, TRUE)
     IN /\ bucket' = r.bucket
        /\ advance(w, "done", <<>>, r.status)
  /\ UNCHANGED <<EMPLOYEES, gcs_client, last, steps, mail>>

\* publish_draft: source_blob.exists()
PublishExists(w) ==
  /\ requests[w].pc = "exists"
  /\ IF blob_exists(bucket, requests[w].data.file)
       THEN advance(w, "copy", <<>>, 0)
       ELSE advance(w, "done", <<>>, 404)
  /\ UNCHANGED <<EMPLOYEES, gcs_client, bucket, last, steps, mail>>

\* publish_draft: bucket.copy_blob(...), which raises when the source is gone
PublishCopy(w) ==
  /\ requests[w].pc = "copy"
  /\ LET file == requests[w].data.file
     IN IF blob_exists(bucket, file)
          THEN /\ bucket' = copy_blob(bucket, file, published_name(file))
               /\ advance(w, "delete", <<>>, 0)
          ELSE /\ bucket' = bucket
               /\ advance(w, "done", <<>>, 500)
  /\ UNCHANGED <<EMPLOYEES, gcs_client, last, steps, mail>>

\* publish_draft: source_blob.delete(), which raises when the source is gone
PublishDelete(w) ==
  /\ requests[w].pc = "delete"
  /\ LET file == requests[w].data.file
     IN IF blob_exists(bucket, file)
          THEN /\ bucket' = delete_blob(bucket, file)
               /\ advance(w, "done", <<>>, 200)
          ELSE /\ bucket' = bucket
               /\ advance(w, "done", <<>>, 500)
  /\ UNCHANGED <<EMPLOYEES, gcs_client, last, steps, mail>>

NextRace ==
  \E w \in Workers :
    \/ Call(w)
    \/ AddCheck(w)
    \/ AddAppend(w)
    \/ RemoveFilter(w)
    \/ RemoveAssign(w)
    \/ UpdateFind(w)
    \/ Dump(w)
    \/ Upload(w)
    \/ SaveDraftUpload(w)
    \/ PublishExists(w)
    \/ PublishCopy(w)
    \/ PublishDelete(w)

SpecRace == InitRace /\ [][NextRace]_vars

----------------------------------------------------------------------------
(* Vocabulary of the properties *)

\* two characters that are equal, or the same letter in different case
same_letter(c, d) ==
  \/ c = d
  \/ Ord[c] \in 65..90 /\ Ord[d] = Ord[c] + 32
  \/ Ord[d] \in 65..90 /\ Ord[c] = Ord[d] + 32

\* two strings that are equal case-insensitively
EqualIgnoringCase(a, b) ==
  /\ Len(a) = Len(b)
  /\ \A k \in 1..Len(a) : same_letter(a[k], b[k])

\* the email / name of a request as the handlers read it: trimmed
RequestEmail(data) == strip(get(data, "email", <<>>))

RequestName(data) == strip(get(data, "name", <<>>))

\* the positions of the employees whose email is the given one,
\* case-insensitively
Holders(employees, email) ==
  {i \in 1..Len(employees) : EqualIgnoringCase(employees[i].email, email)}

\* a list in ascending order of lower-cased name
SortedByName(employees) ==
  \A i, j \in 1..Len(employees) :
    i < j => ~str_lt(lower(employees[j].name), lower(employees[i].name))

\* the step just taken was a request to the named handler
Handled(op) == last'.op = op

----------------------------------------------------------------------------
(* Properties of the directory *)

\* C1: in every reachable state no two employees of the in-memory list have
\* emails that are equal case-insensitively.
C1_EmailsUnique ==
  \A i, j \in 1..Len(EMPLOYEES) :
    i # j => ~EqualIgnoringCase(EMPLOYEES[i].email, EMPLOYEES[j].email)

\* C2: add_employee with a (non-blank) name and an email that equals the
\* email of an employee in the list case-insensitively answers 409, leaves
\* the in-memory list unchanged and writes no snapshot.
C2_DuplicateAddConflicts ==
  [][ ( /\ Handled("add")
        /\ RequestName(last'.data) # <<>>
        /\ Holders(EMPLOYEES, RequestEmail(last'.data)) # {} )
      => ( /\ last'.status = 409
           /\ EMPLOYEES' = EMPLOYEES
           /\ bucket' = bucket
           /\ last'.saved = "not called" ) ]_vars

\* C2 witness: an add was refused with 409 for an email that no employee
\* has in that spelling, only in another casing.
C2_Witness ==
  /\ last.op = "add"
  /\ last.status = 409
  /\ Holders(EMPLOYEES, RequestEmail(last.data)) # {}
  /\ \A i \in 1..Len(EMPLOYEES) : EMPLOYEES[i].email # RequestEmail(last.data)

\* C3: from any reachable list, add_employee with a non-blank name and a
\* non-blank email that no employee has case-insensitively answers 200, makes
\* the list exactly one longer and leaves the whole list sorted ascending by
\* lower-cased name.
C3_AddKeepsSorted ==
  [][ ( /\ Handled("add")
        /\ RequestName(last'.data) # <<>>
        /\ RequestEmail(last'.data) # <<>>
        /\ Holders(EMPLOYEES, RequestEmail(last'.data)) = {} )
      => ( /\ last'.status = 200
           /\ Len(EMPLOYEES') = Len(EMPLOYEES) + 1
           /\ SortedByName(EMPLOYEES') ) ]_vars

\* C3 witness: an add succeeded on a list in which update_employee had
\* renamed a configured employee, and the new name sorts first only when
\* lower-cased.
C3_Witness ==
  /\ last.op = "add"
  /\ last.status = 200
  /\ last.data.name = <<" ", "a", "b", "e", " ", "L", "e", "e", " ">>
  /\ \E i \in 1..Len(EMPLOYEES) :
       /\ EMPLOYEES[i].name = <<"Z", "e", "d", " ", "R", "o", "e">>
       /\ EMPLOYEES[i].email = CONFIG_EMPLOYEES[1].email

\* C4: remove_employee with an email that matches an employee of the list
\* answers 200 and makes the list exactly one shorter.
C4_RemoveDropsOne ==
  [][ ( /\ Handled("remove")
        /\ Holders(EMPLOYEES, RequestEmail(last'.data)) # {} )
      => ( /\ last'.status = 200
           /\ Len(EMPLOYEES') = Len(EMPLOYEES) - 1 ) ]_vars

\* C5: remove_employee with a (non-blank) email that matches no employee
\* answers 404, leaves the in-memory list unchanged in contents and order
\* and writes no snapshot.
C5_RemoveMissingNotFound ==
  [][ ( /\ Handled("remove")
        /\ RequestEmail(last'.data) # <<>>
        /\ Holders(EMPLOYEES, RequestEmail(last'.data)) = {} )
      => ( /\ last'.status = 404
           /\ EMPLOYEES' = EMPLOYEES
           /\ bucket' = bucket
           /\ last'.saved = "not called" ) ]_vars

\* C5 witness: a remove was answered 404 while storage was configured and
\* held a snapshot.
C5_Witness ==
  /\ last.op = "remove"
  /\ last.status = 404
  /\ gcs_client
  /\ blob_exists(bucket, EMPLOYEES_GCS_KEY)

\* C6: for every employee record of the list and every casing of its email,
\* remove_employee removes that record, update_employee answers with that
\* record, and add_employee (given a name) answers 409.
C6_LookupFindsRecord ==
  [][ \A i \in Holders(EMPLOYEES, IF last'.op = "start" THEN <<>>
                                  ELSE RequestEmail(last'.data)) :
        /\ Handled("remove") =>
             /\ last'.status = 200
             /\ Holders(EMPLOYEES', RequestEmail(last'.data)) = {}
        /\ Handled("update") =>
             /\ last'.status = 200
             /\ last'.idx = i
        /\ (Handled("add") /\ RequestName(last'.data) # <<>>) =>
             last'.status = 409 ]_vars

\* C7: the version number of the stored snapshot never decreases, whatever
\* startups and snapshot saves happen.
C7_VersionMonotonic ==
  [][ ( /\ blob_exists(bucket, EMPLOYEES_GCS_KEY)
        /\ blob_exists(bucket', EMPLOYEES_GCS_KEY) )
      => gcs_version(bucket'[EMPLOYEES_GCS_KEY])
           >= gcs_version(bucket[EMPLOYEES_GCS_KEY]) ]_vars

----------------------------------------------------------------------------
(* Properties of the document store *)

\* a key of the drafts namespace
IsDraftKey(key) ==
  Len(key) >= Len(DRAFTS_PREFIX) /\ SubSeq(key, 1, Len(DRAFTS_PREFIX)) = DRAFTS_PREFIX

\* the key of the published namespace that corresponds to a draft key
PublishedKeyOf(key) ==
  PUBLISHED_PREFIX \o SubSeq(key, Len(DRAFTS_PREFIX) + 1, Len(key))

\* C8: after publish_draft succeeds for a draft key, no object exists under
\* that key and the corresponding published/ key holds exactly the content
\* the draft had before the call.
C8_PublishMoves ==
  [][ ( /\ Handled("publish_draft")
        /\ last'.success
        /\ IsDraftKey(last'.file) )
      => ( /\ ~blob_exists(bucket', last'.file)
           /\ blob_exists(bucket', PublishedKeyOf(last'.file))
           /\ bucket'[PublishedKeyOf(last'.file)] = bucket[last'.file] ) ]_vars

\* C8 witness: a draft was published over an older published issue of the
\* same name with different content.
C8_Witness ==
  /\ last.op = "publish_draft"
  /\ last.success
  /\ IsDraftKey(last.file)
  /\ \E k \in DraftKeys \ {last.file} :
       /\ blob_exists(bucket, PublishedKeyOf(k))
       /\ blob_exists(bucket, PublishedKeyOf(last.file))
       /\ bucket[PublishedKeyOf(k)].payload # bucket[PublishedKeyOf(last.file)].payload

\* C9: publish_draft never loses a document: for any file key and any
\* failure point, the content that was under the key before the call exists
\* afterwards under the source key or under the published key.
C9_PublishNeverLoses ==
  [][ ( /\ Handled("publish_draft")
        /\ last'.file # <<>>
        /\ blob_exists(bucket, last'.file) )
      => ( \/ bucket'[last'.file] = bucket[last'.file]
           \/ bucket'[published_name(last'.file)] = bucket[last'.file] ) ]_vars

----------------------------------------------------------------------------
(* Properties of the delivery *)

\* the calls of sg.send that the email service did not accept
FailedCalls(calls) ==
  SelectSeq(calls, LAMBDA c : ~(c.outcome.kind = "status"
                                /\ c.outcome.code \in {200, 201, 202}))

\* a send_newsletter request that reaches the delivery loop
Deliverable(data) ==
  data.recipients # <<>> /\ data.subject # "" /\ data.html # ""

\* C10: send_newsletter attempts each recipient once whatever happened to
\* the earlier ones, and reports sent_count = number of accepted deliveries,
\* total_recipients = length of the list, one error string naming each failed
\* recipient, and success = TRUE exactly when sent_count >= 1.
C10_SendReport ==
  ( /\ mail.pc = "done"
    /\ Deliverable(mail.data)
    /\ mail.response.status = 200 )
  => LET failed == FailedCalls(mail.calls)
         r == mail.response
     IN /\ [k \in 1..Len(mail.calls) |-> mail.calls[k].to] = mail.data.recipients
        /\ r.sent_count = Len(mail.calls) - Len(failed)
        /\ r.total_recipients = Len(mail.data.recipients)
        /\ Len(r.errors) = Len(failed)
        /\ \A k \in 1..Len(failed) : find(r.errors[k], failed[k].to) # 0
        /\ r.sent_count + Len(r.errors) = r.total_recipients
        /\ r.success <=> r.sent_count >= 1

\* C10 witness: three recipients, the first delivery failed, the two after
\* it were accepted.
C10_Witness ==
  /\ mail.pc = "done"
  /\ mail.response.status = 200
  /\ Len(mail.data.recipients) = 3
  /\ Len(FailedCalls(mail.calls)) = 1
  /\ FailedCalls(mail.calls)[1] = mail.calls[1]
  /\ mail.response.sent_count = 2
  /\ mail.response.success

----------------------------------------------------------------------------
(* Vocabulary of the renderer's properties *)

\* render_email answered the request with a document
Rendered == last.op = "render_email" /\ last.status = 200

\* the values a dictionary holds under some of its keys
texts(d, keys) == {d[k] : k \in keys \cap DOMAIN d}

\* the same for every dictionary of a list
texts_of_all(l, keys) == UNION {texts(l[i], keys) : i \in 1..Len(l)}

\* every text a user supplies in a payload
UserTexts(data) ==
  texts(data, {"joke"})
    \cup texts_of_all(dict_get(data, "birthdays", <<>>), {"name", "department"})
    \cup texts_of_all(dict_get(data, "welcome_hires", <<>>),
                      {"name", "role", "fun_fact"})
    \cup texts(dict_get(data, "spotlight", <<>>),
               {"name", "title", "blurb", "fun_facts"})
    \cup texts_of_all(dict_get(data, "spotlights", <<>>),
                      {"name", "title", "blurb", "fun_facts"})
    \cup texts_of_all(dict_get(data, "updates", <<>>), {"title", "body"})
    \cup texts(dict_get(data, "special_section", <<>>), {"title", "body"})
    \cup texts(dict_get(data, "game", <<>>), {"content", "previous_answer"})

\* the text opens a tag
HasMarkup(v) == \E i \in 1..Len(v) : v[i] = "<"

\* s holds part somewhere
Contains(s, part) == occurrences(s, part) # {}

----------------------------------------------------------------------------
(* Claims C11..C20 *)

\* C11: no text of the payload that carries markup (a '<') is found in the
\* rendered document as the user wrote it, whatever the template: every
\* user-supplied text is HTML-escaped before it is substituted.
C11_UserTextEscaped ==
  Rendered =>
    \A v \in UserTexts(last.data) : HasMarkup(v) => ~Contains(last.html, v)

\* C12: a handler in which an exception was raised answers success = false;
\* none reports success = true for an operation that raised.
C12_RaisedReportsFailure ==
  (last.op \in {"save_draft", "delete_draft", "publish_draft"} /\ last.raised)
    => ~last.success

\* C13: a draft endpoint called while the storage client is not configured
\* answers HTTP 503.
C13_UnconfiguredAnswers503 ==
  (last.op \in {"save_draft", "delete_draft", "publish_draft"} /\ ~gcs_client)
    => last.status = 503

\* the request asks for month m by its decimal numeral
AsksMonth(m) == "month" \in DOMAIN last.data /\ last.data.month = str(m)

\* the request names no month, or one that is no number
AsksNoNumber ==
  \/ "month" \notin DOMAIN last.data
  \/ \E i \in 1..Len(last.data.month) :
       last.data.month[i] \notin {"0", "1", "2", "3", "4", "5", "6", "7", "8",
                                  "9", "+", "-", " "}

\* the directory's entries of month m, in the directory's order
BornIn(m) == SelectSeq(EMPLOYEES, LAMBDA e : e.birthday_month = m)

\* C14: get_birthdays for a month m in 1..12 returns exactly the employees
\* whose birthday_month is m, in ascending birthday_day order; a month of
\* 0, 13, a missing or a non-numeric month is answered 400 with no entries.
C14_BirthdaysOfMonth ==
  last.op = "get_birthdays" =>
    /\ \A m \in 1..12 :
         AsksMonth(m) =>
           /\ last.status = 200
           /\ \A i \in 1..Len(last.birthdays) :
                last.birthdays[i].birthday_month = m
           /\ Len(last.birthdays) = Len(BornIn(m))
           /\ \A j \in 1..Len(BornIn(m)) :
                \E i \in 1..Len(last.birthdays) : last.birthdays[i] = BornIn(m)[j]
           /\ \A i, k \in 1..Len(last.birthdays) :
                i < k => last.birthdays[i].birthday_day
                           <= last.birthdays[k].birthday_day
    /\ (AsksNoNumber \/ AsksMonth(0) \/ \E m \in 13..MaxMonth : AsksMonth(m))
         => last.status = 400 /\ last.birthdays = <<>>

\* April is asked of a directory that lists its birthdays out of day order
\* beside entries of other months: the answer is sorted, the list is not
C14_Witness ==
  /\ last.op = "get_birthdays"
  /\ AsksMonth(4)
  /\ Len(last.birthdays) = 3
  /\ last.birthdays # BornIn(4)
  /\ Len(EMPLOYEES) = 5

\* the value render_email substitutes for a placeholder
ValueOf(token) ==
  LET i == CHOOSE j \in 1..Len(last.subs) : last.subs[j][1] = token
  IN last.subs[i][2]

\* the template holds the placeholder
InTemplate(token) == last.file.exists /\ Contains(last.file.text, token)

\* HTML-escaping, one character at a time
Escaped(s) ==
  join([i \in 1..Len(s) |->
          CASE s[i] = "&" -> <<"&", "a", "m", "p", ";">>
            [] s[i] = "<" -> <<"&", "l", "t", ";">>
            [] s[i] = ">" -> <<"&", "g", "t", ";">>
            [] s[i] = "\"" -> <<"&", "q", "u", "o", "t", ";">>
            [] s[i] = "'" -> <<"&", "#", "x", "2", "7", ";">>
            [] OTHER -> <<s[i]>>], <<>>)

\* the parts of s between the occurrences of sep
RECURSIVE Pieces(_, _)
Pieces(s, sep) ==
  LET i == find(s, sep)
  IN IF i = 0 THEN <<s>>
     ELSE <<SubSeq(s, 1, i - 1)>> \o Pieces(SubSeq(s, i + Len(sep), Len(s)), sep)

StartsWith(s, part) == Len(s) >= Len(part) /\ SubSeq(s, 1, Len(part)) = part

EndsWith(s, part) ==
  Len(s) >= Len(part) /\ SubSeq(s, Len(s) - Len(part) + 1, Len(s)) = part

\* the birthdays of the payload
Birthdays == dict_get(last.data, "birthdays", <<>>)

\* C15: with no birthday in the payload the birthday display placeholder is
\* replaced by 'none'; with at least one it is replaced by 'table-row' and
\* the birthday section has one row per birthday, in the payload's order,
\* whose cells hold the HTML-escaped name, the day and the HTML-escaped
\* department.
C15_BirthdaySection ==
  Rendered =>
    LET shown == ValueOf(<<"{", "{", "B", "I", "R", "T", "H", "D", "A", "Y", "_", "D", "I", "S", "P", "L", "A", "Y", "}", "}">>)
        section == ValueOf(<<"{", "{", "B", "I", "R", "T", "H", "D", "A", "Y", "_", "S", "E", "C", "T", "I", "O", "N", "}", "}">>)
        rows == Pieces(section, <<"\n">>)
    IN /\ Birthdays = <<>> => shown = <<"n", "o", "n", "e">> /\ section = <<>>
       /\ Birthdays # <<>> =>
            /\ shown = <<"t", "a", "b", "l", "e", "-", "r", "o", "w">>
            /\ Len(rows) = Len(Birthdays)
            /\ \A i \in 1..Len(Birthdays) :
                 LET cells == Pieces(rows[i], <<"<", "/", "t", "d", ">">>)
                 IN /\ Len(cells) = 4
                    /\ StartsWith(cells[1], <<"<", "t", "r", ">", "<", "t", "d", " ">>)
                    /\ EndsWith(cells[1], <<"\"", ">">> \o Escaped(Birthdays[i].name))
                    /\ EndsWith(cells[2], <<" ">> \o str(Birthdays[i].birthday_day))
                    /\ EndsWith(cells[3], <<"\"", ">">> \o Escaped(Birthdays[i].department))
                    /\ cells[4] = <<"<", "/", "t", "r", ">">>
       /\ InTemplate(<<"{", "{", "B", "I", "R", "T", "H", "D", "A", "Y", "_", "D", "I", "S", "P", "L", "A", "Y", "}", "}">>)
            => Contains(last.html, <<"<", "p", ">">> \o shown \o <<"<", "/", "p", ">">>)
       /\ InTemplate(<<"{", "{", "B", "I", "R", "T", "H", "D", "A", "Y", "_", "S", "E", "C", "T", "I", "O", "N", "}", "}">>)
            => Contains(last.html, <<"<", "p", ">">> \o section \o <<"<", "/", "p", ">">>)

\* two birthdays, the first with quotes in the name and an ampersand in the
\* department, are rendered into a template that holds both placeholders
C15_Witness ==
  /\ Rendered
  /\ Len(Birthdays) = 2
  /\ Birthdays[1].name # Escaped(Birthdays[1].name)
  /\ Birthdays[1].department # Escaped(Birthdays[1].department)
  /\ InTemplate(<<"{", "{", "B", "I", "R", "T", "H", "D", "A", "Y", "_", "S", "E", "C", "T", "I", "O", "N", "}", "}">>)
  /\ Contains(last.html, <<"<", "p", ">", "t", "a", "b", "l", "e", "-", "r", "o", "w", "<", "/", "p", ">">>)

\* the joke of the payload, the text before its first '|' and the text after
Joke == dict_get(last.data, "joke", <<>>)

HasPipe == \E i \in 1..Len(Joke) : Joke[i] = "|"

FirstPipe == CHOOSE i \in 1..Len(Joke) : Joke[i] = "|" /\ \A j \in 1..(i - 1) : Joke[j] # "|"

\* setup and punchline are what the claim says they are
JokeParts ==
  IF HasPipe
    THEN /\ ValueOf(<<"{", "{", "J", "O", "K", "E", "_", "S", "E", "T", "U", "P", "}", "}">>)
              = Escaped(strip(SubSeq(Joke, 1, FirstPipe - 1)))
         /\ ValueOf(<<"{", "{", "J", "O", "K", "E", "_", "P", "U", "N", "C", "H", "L", "I", "N", "E", "}", "}">>)
              = Escaped(strip(SubSeq(Joke, FirstPipe + 1, Len(Joke))))
    ELSE /\ ValueOf(<<"{", "{", "J", "O", "K", "E", "_", "S", "E", "T", "U", "P", "}", "}">>) = Escaped(Joke)
         /\ ValueOf(<<"{", "{", "J", "O", "K", "E", "_", "P", "U", "N", "C", "H", "L", "I", "N", "E", "}", "}">>) = <<>>

\* C16 as stated: the joke is split on its first '|' only, and the punchline
\* display is visible whenever the joke holds a '|', hidden when it holds none.
C16_PipeShowsPunchline ==
  Rendered =>
    /\ JokeParts
    /\ ValueOf(<<"{", "{", "P", "U", "N", "C", "H", "L", "I", "N", "E", "_", "D", "I", "S", "P", "L", "A", "Y", "}", "}">>) = IF HasPipe THEN <<"t", "a", "b", "l", "e", "-", "r", "o", "w">> ELSE <<"n", "o", "n", "e">>

\* C16 amended: the joke is split on its first '|' only (setup before it,
\* punchline after it, both trimmed and HTML-escaped; with no '|' the whole
\* joke is the setup and the punchline is empty), and the punchline display
\* is visible exactly when the punchline is not empty.
C16_JokeSplit ==
  Rendered =>
    /\ JokeParts
    /\ ValueOf(<<"{", "{", "P", "U", "N", "C", "H", "L", "I", "N", "E", "_", "D", "I", "S", "P", "L", "A", "Y", "}", "}">>)
         = IF ValueOf(<<"{", "{", "J", "O", "K", "E", "_", "P", "U", "N", "C", "H", "L", "I", "N", "E", "}", "}">>) # <<>> THEN <<"t", "a", "b", "l", "e", "-", "r", "o", "w">> ELSE <<"n", "o", "n", "e">>
    /\ ~HasPipe => ValueOf(<<"{", "{", "P", "U", "N", "C", "H", "L", "I", "N", "E", "_", "D", "I", "S", "P", "L", "A", "Y", "}", "}">>) = <<"n", "o", "n", "e">>

\* a joke with two '|' is rendered: the punchline keeps the second one
C16_Witness ==
  /\ Rendered
  /\ Cardinality({i \in 1..Len(Joke) : Joke[i] = "|"}) = 2
  /\ Contains(ValueOf(<<"{", "{", "J", "O", "K", "E", "_", "P", "U", "N", "C", "H", "L", "I", "N", "E", "}", "}">>), <<"|">>)
  /\ InTemplate(<<"{", "{", "J", "O", "K", "E", "_", "P", "U", "N", "C", "H", "L", "I", "N", "E", "}", "}">>)
  /\ Contains(last.html, <<"<", "p", ">", "t", "a", "b", "l", "e", "-", "r", "o", "w", "<", "/", "p", ">">>)

\* the updates of the payload that are rendered
Updates ==
  IF dict_get(last.data, "updates_enabled", TRUE)
    THEN dict_get(last.data, "updates", <<>>) ELSE <<>>

\* the photo URLs of update k that are not empty
PhotosOf(k) ==
  SelectSeq(dict_get(Updates[k], "photos", <<>>), LAMBDA p : p # <<>>)

\* the image block substituted for update k
PhotoBlock(k) == ValueOf(<<"{", "{", "U", "P", "D", "A", "T", "E", "_">> \o str(k) \o <<"_", "P", "H", "O", "T", "O", "S", "}", "}">>)

Count(s, part) == Cardinality(occurrences(s, part))

\* C17: an update with n non-empty photo URLs gets no image block for
\* n = 0, one full-width image for n = 1, and for n >= 2 a table of rows of
\* two cells, a new row after every two photos, in which photo i (from 0)
\* spans the row (colspan 2, width 100%) exactly when it is the last photo
\* and n is odd, and every other photo has a 50% cell.
C17_PhotoGrid ==
  Rendered =>
    \A k \in 1..3 :
      k <= Len(Updates) =>
        LET photos == PhotosOf(k)
            n == Len(photos)
            block == PhotoBlock(k)
            cells == Tail(Pieces(block, <<"<", "t", "d">>))
            rows == Tail(Pieces(block, <<"<", "t", "r", ">">>))
        IN /\ n = 0 => block = <<>>
           /\ n = 1 =>
                /\ StartsWith(block, <<"<", "i", "m", "g", " ", "s", "r", "c", "=", "\"">> \o photos[1] \o <<"\"", " ", "w", "i", "d", "t", "h", "=", "\"", "5", "1", "6", "\"", " ">>)
                /\ Contains(block, <<"s", "t", "y", "l", "e", "=", "\"", "w", "i", "d", "t", "h", ":", " ", "1", "0", "0", "%", ";">>)
                /\ Count(block, <<"<", "i", "m", "g">>) = 1
                /\ Count(block, <<"<", "t", "d">>) = 0
           /\ n >= 2 =>
                /\ StartsWith(block, <<"<", "t", "a", "b", "l", "e", " ">>)
                /\ EndsWith(block, <<"<", "/", "t", "r", ">", "<", "/", "t", "a", "b", "l", "e", ">">>)
                /\ Len(cells) = n
                /\ Count(block, <<"<", "i", "m", "g">>) = n
                /\ Len(rows) = (n + 1) \div 2
                /\ \A r \in 1..Len(rows) :
                     Count(rows[r], <<"<", "t", "d">>)
                       = IF r = Len(rows) /\ n % 2 = 1 THEN 1 ELSE 2
                /\ \A i \in 0..(n - 1) :
                     /\ Contains(cells[i + 1], <<"<", "i", "m", "g", " ", "s", "r", "c", "=", "\"">> \o photos[i + 1] \o <<"\"", " ">>)
                     /\ IF i = n - 1 /\ n % 2 = 1
                          THEN StartsWith(cells[i + 1], <<" ", "c", "o", "l", "s", "p", "a", "n", "=", "\"", "2", "\"", " ", "w", "i", "d", "t", "h", "=", "\"", "1", "0", "0", "%", "\"", " ">>)
                          ELSE StartsWith(cells[i + 1], <<" ", "w", "i", "d", "t", "h", "=", "\"", "5", "0", "%", "\"", " ">>)

\* the third update of a payload carries three photos: two rows, the second
\* with the third photo alone
C17_Witness ==
  /\ Rendered
  /\ Len(Updates) = 3
  /\ Len(PhotosOf(3)) = 3
  /\ Count(PhotoBlock(3), <<"<", "t", "r", ">">>) = 2
  /\ Count(PhotoBlock(3), <<" ", "c", "o", "l", "s", "p", "a", "n", "=", "\"", "2", "\"">>) = 1
  /\ InTemplate(<<"{", "{", "U", "P", "D", "A", "T", "E", "_", "3", "_", "P", "H", "O", "T", "O", "S", "}", "}">>)
  /\ Contains(last.html, PhotoBlock(3))

\* the document the replace calls start from
Started == absolute_logo(last.file.text, last.host_url)

\* the replace calls in other orders: all of them reversed, and each one
\* moved in front of the others
Reorderings(subs) ==
  {[i \in 1..Len(subs) |-> subs[Len(subs) + 1 - i]]}
    \cup {<<subs[k]>> \o SubSeq(subs, 1, k - 1) \o SubSeq(subs, k + 1, Len(subs)) :
            k \in 1..Len(subs)}

\* C18: the replace calls made in another order give the document that
\* render_email returns.
C18_OrderIndependent ==
  Rendered =>
    \A order \in Reorderings(last.subs) : substitute(Started, order) = last.html

\* C19: no placeholder of the vocabulary is left in the rendered document.
C19_NoPlaceholderLeft ==
  Rendered => \A i \in 1..Len(Tokens) : ~Contains(last.html, Tokens[i])

\* a dictionary of the payload holds something: one of its values is not
\* empty
Filled(d) == \E k \in DOMAIN d : d[k] # <<>>

\* one of the named keys of a dictionary holds something
FilledAt(d, keys) == \E k \in keys \cap DOMAIN d : d[k] # <<>>

\* update k of the payload, an empty dictionary when there are fewer
UpdateAt(k) == IF k <= Len(Updates) THEN Updates[k] ELSE <<>>

Hires ==
  IF dict_get(last.data, "welcome_enabled", FALSE)
    THEN dict_get(last.data, "welcome_hires", <<>>) ELSE <<>>

\* the display placeholders of the optional sections
SectionDisplays ==
  {<<"{", "{", "B", "I", "R", "T", "H", "D", "A", "Y", "_", "D", "I", "S", "P", "L", "A", "Y", "}", "}">>, <<"{", "{", "W", "E", "L", "C", "O", "M", "E", "_", "D", "I", "S", "P", "L", "A", "Y", "}", "}">>, <<"{", "{", "U", "P", "D", "A", "T", "E", "S", "_", "D", "I", "S", "P", "L", "A", "Y", "}", "}">>,
   <<"{", "{", "U", "P", "D", "A", "T", "E", "_", "2", "_", "D", "I", "S", "P", "L", "A", "Y", "}", "}">>, <<"{", "{", "U", "P", "D", "A", "T", "E", "_", "3", "_", "D", "I", "S", "P", "L", "A", "Y", "}", "}">>,
   <<"{", "{", "S", "P", "E", "C", "I", "A", "L", "_", "S", "E", "C", "T", "I", "O", "N", "_", "D", "I", "S", "P", "L", "A", "Y", "}", "}">>, <<"{", "{", "G", "A", "M", "E", "_", "D", "I", "S", "P", "L", "A", "Y", "}", "}">>}

Shows(token) == ValueOf(token) = <<"t", "a", "b", "l", "e", "-", "r", "o", "w">>

TwoValued ==
  \A token \in SectionDisplays : ValueOf(token) \in {<<"t", "a", "b", "l", "e", "-", "r", "o", "w">>, <<"n", "o", "n", "e">>}

\* the sections whose payload field is a list
ListDisplays ==
  /\ Shows(<<"{", "{", "B", "I", "R", "T", "H", "D", "A", "Y", "_", "D", "I", "S", "P", "L", "A", "Y", "}", "}">>) <=> Birthdays # <<>>
  /\ Shows(<<"{", "{", "W", "E", "L", "C", "O", "M", "E", "_", "D", "I", "S", "P", "L", "A", "Y", "}", "}">>) <=> Hires # <<>>
  /\ Shows(<<"{", "{", "U", "P", "D", "A", "T", "E", "S", "_", "D", "I", "S", "P", "L", "A", "Y", "}", "}">>) <=> Updates # <<>>

\* C20 as stated: every section display is 'table-row' exactly when the
\* payload field of the section holds something (for updates and welcome,
\* with the enabled flag on), and 'none' otherwise.
C20_DisplayFollowsPayload ==
  Rendered =>
    /\ TwoValued
    /\ ListDisplays
    /\ Shows(<<"{", "{", "U", "P", "D", "A", "T", "E", "_", "2", "_", "D", "I", "S", "P", "L", "A", "Y", "}", "}">>) <=> Filled(UpdateAt(2))
    /\ Shows(<<"{", "{", "U", "P", "D", "A", "T", "E", "_", "3", "_", "D", "I", "S", "P", "L", "A", "Y", "}", "}">>) <=> Filled(UpdateAt(3))
    /\ Shows(<<"{", "{", "S", "P", "E", "C", "I", "A", "L", "_", "S", "E", "C", "T", "I", "O", "N", "_", "D", "I", "S", "P", "L", "A", "Y", "}", "}">>)
         <=> Filled(dict_get(last.data, "special_section", <<>>))
    /\ Shows(<<"{", "{", "G", "A", "M", "E", "_", "D", "I", "S", "P", "L", "A", "Y", "}", "}">>) <=> Filled(dict_get(last.data, "game", <<>>))

\* C20: every section display is 'table-row' or 'none'; birthdays, welcome
\* and updates are shown exactly when their list is not empty (welcome and
\* updates with the enabled flag on); update 2 and update 3 exactly when the
\* update has a title or a body, the special section exactly when it has a
\* title or a body, the game exactly when it has content or an image.
C20_DisplayFollowsContent ==
  Rendered =>
    /\ TwoValued
    /\ ListDisplays
    /\ Shows(<<"{", "{", "U", "P", "D", "A", "T", "E", "_", "2", "_", "D", "I", "S", "P", "L", "A", "Y", "}", "}">>) <=> FilledAt(UpdateAt(2), {"title", "body"})
    /\ Shows(<<"{", "{", "U", "P", "D", "A", "T", "E", "_", "3", "_", "D", "I", "S", "P", "L", "A", "Y", "}", "}">>) <=> FilledAt(UpdateAt(3), {"title", "body"})
    /\ Shows(<<"{", "{", "S", "P", "E", "C", "I", "A", "L", "_", "S", "E", "C", "T", "I", "O", "N", "_", "D", "I", "S", "P", "L", "A", "Y", "}", "}">>)
         <=> FilledAt(dict_get(last.data, "special_section", <<>>), {"title", "body"})
    /\ Shows(<<"{", "{", "G", "A", "M", "E", "_", "D", "I", "S", "P", "L", "A", "Y", "}", "}">>)
         <=> FilledAt(dict_get(last.data, "game", <<>>), {"content", "image_url"})
    /\ \A token \in SectionDisplays :
         InTemplate(token) => Contains(last.html, <<"<", "p", ">">> \o ValueOf(token) \o <<"<", "/", "p", ">">>)

\* an update with photos and neither title nor body is rendered hidden while
\* the update before it is shown
C20_Witness ==
  /\ Rendered
  /\ InTemplate(<<"{", "{", "U", "P", "D", "A", "T", "E", "_", "3", "_", "D", "I", "S", "P", "L", "A", "Y", "}", "}">>)
  /\ Len(Updates) = 3
  /\ Filled(UpdateAt(3))
  /\ ~Shows(<<"{", "{", "U", "P", "D", "A", "T", "E", "_", "3", "_", "D", "I", "S", "P", "L", "A", "Y", "}", "}">>)
  /\ Shows(<<"{", "{", "U", "P", "D", "A", "T", "E", "S", "_", "D", "I", "S", "P", "L", "A", "Y", "}", "}">>)

----------------------------------------------------------------------------
(* Claims C21..C30 *)

\* the snapshot stored under the employees key
Snapshot(bkt) == bkt[EMPLOYEES_GCS_KEY]

\* the version a stored snapshot carries; a bare list carries none and
\* counts as version 1
StoredVersion(bkt) ==
  IF Snapshot(bkt).format = "dict" THEN Snapshot(bkt).version ELSE 1

\* the process has started and has read the stored snapshot
StartedOn(bkt) ==
  /\ Handled("start")
  /\ last'.loaded = "ok"
  /\ Snapshot(bkt).kind = "snapshot"

Updatable == {"name", "department", "title", "birthday_month", "birthday_day"}

\* the value a request asks for in a field: texts are taken trimmed
Requested(data, f) ==
  IF f \in {"birthday_month", "birthday_day"} THEN data[f] ELSE strip(data[f])

\* record i of the new list is record i of the old one with the fields of
\* the request merged in, and every other record is as it was
MergedAt(i, data) ==
  /\ Len(EMPLOYEES') = Len(EMPLOYEES)
  /\ EMPLOYEES'[i].email = EMPLOYEES[i].email
  /\ \A f \in Updatable :
       EMPLOYEES'[i][f] = IF f \in data.present THEN Requested(data, f)
                          ELSE EMPLOYEES[i][f]
  /\ \A j \in 1..Len(EMPLOYEES) : j # i => EMPLOYEES'[j] = EMPLOYEES[j]

\* the change the request asked for is in the list in memory
MutationKept ==
  LET data == last'.data
      email == RequestEmail(data)
  IN CASE Handled("add") ->
            /\ Len(EMPLOYEES') = Len(EMPLOYEES) + 1
            /\ \E i \in Holders(EMPLOYEES', email) :
                 EMPLOYEES'[i].name = RequestName(data)
       [] Handled("remove") ->
            /\ Holders(EMPLOYEES', email) = {}
            /\ Len(EMPLOYEES') < Len(EMPLOYEES)
       [] Handled("update") ->
            \E i \in Holders(EMPLOYEES, email) : MergedAt(i, data)

\* C22: an add, remove or update whose snapshot write fails, or that runs
\* without storage, answers success, keeps its change of the list in memory
\* and leaves the stored snapshot as it was.
C22_FailedSaveKeepsMutation ==
  [][ last'.op \in {"add", "remove", "update"} /\ last'.saved = "failed" =>
        /\ last'.status = 200
        /\ MutationKept
        /\ bucket' = bucket ]_vars

\* an employee was added while the write failed: the list in memory holds
\* a record the stored snapshot does not
C22_Witness ==
  /\ last.op = "add"
  /\ last.saved = "failed"
  /\ gcs_client
  /\ Snapshot(bucket).kind = "snapshot"
  /\ Snapshot(bucket).employees # EMPLOYEES
  /\ Holders(EMPLOYEES, RequestEmail(last.data)) # {}

\* C23: an update that finds a record with the email changes, in the first
\* such record, the fields the request holds among name, department, title,
\* birthday_month and birthday_day (texts trimmed) and nothing else: the
\* fields it does not hold, the email, the record's position and every other
\* record stay; an update that finds none answers 404 and changes nothing.
C23_UpdateMergesPresentFields ==
  [][ Handled("update") /\ RequestEmail(last'.data) # <<>> =>
        LET data == last'.data
            found == Holders(EMPLOYEES, RequestEmail(data))
        IN IF found = {}
             THEN /\ last'.status = 404
                  /\ EMPLOYEES' = EMPLOYEES
                  /\ bucket' = bucket
             ELSE /\ last'.status = 200
                  /\ \E i \in found : MergedAt(i, data) ]_vars

\* an update has put a new department and title into a record and left its
\* name as it was
C23_Witness ==
  /\ last.op = "update"
  /\ last.status = 200
  /\ "department" \in last.data.present
  /\ "name" \notin last.data.present
  /\ EMPLOYEES[last.idx].department = strip(last.data.department)
  /\ EMPLOYEES[last.idx].name = CONFIG_EMPLOYEES[last.idx].name
  /\ Len(EMPLOYEES) = Len(CONFIG_EMPLOYEES)

\* C26: in every state reached by add, remove and update requests the list
\* in memory is in ascending order of lower-cased name.
C26_AlwaysSorted == SortedByName(EMPLOYEES)

\* a load was asked for a key under which storage holds nothing
LoadedMissing ==
  /\ last.op \in {"load_draft", "load_published"}
  /\ gcs_client
  /\ last.file # <<>>
  /\ ~blob_exists(bucket, last.file)

\* C24: load_draft and load_published answer HTTP 404 for a key that does
\* not exist in storage.
C24_MissingKeyIs404 == LoadedMissing => last.status = 404

\* C30: delete_draft and publish_draft leave every object whose key does
\* not start with drafts/ as it was, whatever file key the caller supplies.
C30_DraftsNamespaceOnly ==
  [][ Handled("delete_draft") \/ Handled("publish_draft") =>
        \A k \in Keys : ~IsDraftKey(k) => bucket'[k] = bucket[k] ]_vars

\* the month and year a get_previous_game request asks for
AskedMonth(args) == args_get_int(args, "month").value

AskedYear(args) ==
  IF "year" \in DOMAIN args THEN args_get_int(args, "year").value
  ELSE GameClock.year

\* the key of the game answer of month m (a number) of year y
GameKey(m, y) == game_blob_name(lower(MONTH_NAMES[m]), y)

\* the key of the month before month m of year y
KeyBefore(m, y) == IF m = 1 THEN GameKey(12, y - 1) ELSE GameKey(m - 1, y)

\* the number of the month a save_game_answer request names
NamedMonth(data) ==
  CHOOSE i \in 1..12 : lower(MONTH_NAMES[i]) = lower(data.month)

\* a request for the month that follows the month of the record just saved
AsksFollowing(data, args) ==
  LET i == NamedMonth(data)
      y == dict_get(data, "year", GameClock.year)
  IN /\ AskedMonth(args) = (i % 12) + 1
     /\ AskedYear(args) = IF i = 12 THEN y + 1 ELSE y

\* C25: get_previous_game for month m in 1..12 of year y answers with what
\* is stored under the key of month m-1 of year y, and for m = 1 under the
\* key of December of year y-1; asked for the month after the one a
\* save_game_answer has just stored a record for, it returns that record.
C25_PreviousGameFound ==
  [][ ( /\ Handled("get_previous_game")
        /\ gcs_client
        /\ ~last'.raised
        /\ AskedMonth(last'.args) \in 1..12 )
      => LET args == last'.args
             key == KeyBefore(AskedMonth(args), AskedYear(args))
         IN /\ last'.success
            /\ last'.game = bucket[key]
            /\ ( /\ last.op = "save_game_answer"
                 /\ last.success
                 /\ "month" \in DOMAIN last.data
                 /\ AsksFollowing(last.data, args) )
               => /\ last'.game.kind = "game"
                  /\ last'.game.answer = last.data.answer
                  /\ last'.game.month = lower(last.data.month) ]_vars

\* the answer saved for December 2026 is returned to the request for
\* January 2027
C25_Witness ==
  /\ last.op = "get_previous_game"
  /\ AskedMonth(last.args) = 1
  /\ AskedYear(last.args) = 2027
  /\ last.game.kind = "game"
  /\ last.game.month = <<"d", "e", "c", "e", "m", "b", "e", "r">>
  /\ last.game.year = 2026

\* every request given to a thread has returned
AllReturned == \A w \in Workers : requests[w].pc \in {"idle", "done"}

\* the two threads have each handled one request of the given kinds and no
\* other request has run
RanTogether(op1, op2) ==
  /\ steps = 2
  /\ \A w \in Workers : requests[w].pc = "done"
  /\ \E w, v \in Workers :
       w # v /\ requests[w].op = op1 /\ requests[v].op = op2

\* C27: when add, remove and update requests run at the same time and
\* every snapshot write succeeds, the employee list of the stored snapshot
\* equals the list in memory once all of them have returned.
C27_SnapshotMatchesMemory ==
  (requests # NoRequests /\ AllReturned)
    => Snapshot(bucket).employees = EMPLOYEES

\* C28: of two add requests for the same email (case-insensitively) that run
\* at the same time against a list without it, at most one succeeds and the
\* list ends with exactly one record of the email.
C28_OneAddWins ==
  ( /\ requests # NoRequests
    /\ RanTogether("add", "add")
    /\ EqualIgnoringCase(RequestEmail(requests[1].data),
                         RequestEmail(requests[2].data)) )
    => /\ ~(requests[1].status = 200 /\ requests[2].status = 200)
       /\ Cardinality(Holders(EMPLOYEES, RequestEmail(requests[1].data))) = 1

\* C29: when a publish_draft and a save_draft of the same key have run at
\* the same time, the document of the save that reported success is found
\* under the draft key or under the published key.
C29_SavedDraftSurvives ==
  ( /\ requests # NoRequests
    /\ RanTogether("save_draft", "publish_draft") )
    => \A w \in Workers :
         (requests[w].op = "save_draft" /\ requests[w].status = 200)
           => LET key == draft_blob_name(requests[w].data)
                  doc == draft_document(requests[w].data)
              IN bucket[key] = doc \/ bucket[published_name(key)] = doc

====
